---- MODULE Spec2Model ----
(***************************************************************************)
(* A model of godex, a reader for Dalvik Executable (DEX) images.          *)
(*                                                                         *)
(*   SpecCodec  the primitive decoders and the descriptor-driven Unpack,   *)
(*              applied to byte slices drawn from bounded sets;            *)
(*   Spec       Open / Parse on DEX images built from bounded parameters.  *)
(*                                                                         *)
(* Conventions.  A Go byte slice is a record [bytes, cap]: bytes holds the *)
(* len(s) readable elements, cap >= Len(bytes) is its capacity; the        *)
(* elements between len and cap read as zero (the buffers come zero-filled *)
(* from ReadAll).  An index expression s[i] checks i against len, a slice  *)
(* expression s[lo:hi] checks hi against cap, as Go does.  A runtime panic *)
(* is an outcome of its own (panic = TRUE), never an error value.          *)
(* A uint32 is a pair <<hi, lo>> of 16-bit limbs, so that arithmetic wraps *)
(* at 2^32 exactly as the code's does.                                     *)
(***************************************************************************)
EXTENDS Integers, Sequences, FiniteSets, TLC

VARIABLES
    \* ---- SpecCodec: one call of a primitive decoder or of Unpack
    cin,        \* the input slice's bytes
    cpc,        \* "ready" | "done"
    cop,        \* the function applied
    cres,       \* its result
    \* ---- Spec: Open / Parse
    img,        \* the parameters the image was built from (ghost)
    b,          \* dex.b: the bytes of the image
    bcap,       \* cap(dex.b)
    pc,         \* position in Open / Parse
    dex,        \* the DEX value: header and tables
    ci,         \* Parse's class loop counter i
    packs,      \* the global codec registry
    parseErr,   \* what Parse returned
    openRes,    \* what Open returned
    trace,      \* the loaders and codecs run so far (ghost)
    \* ---- Spec: Dump / Disassemble on the DEX that Open returned
    out,        \* the last call and what it printed
    ncalls,     \* the calls made so far
    \* ---- SpecPair: two calls of Parse that share packs
    par         \* for each of the two calls: its b, dex, i, class_def_item

cvars == <<cin, cpc, cop, cres>>
pvars == <<img, b, bcap, pc, dex, ci, packs, parseErr, openRes, trace>>
dvars == <<out, ncalls>>
vars == <<cin, cpc, cop, cres, img, b, bcap, pc, dex, ci, packs, parseErr, openRes, trace,
          out, ncalls, par>>

-----------------------------------------------------------------------------
(* Bounds of the model.                                                    *)

\* longest byte sequence handed to a primitive decoder
MaxLen == 6
\* spare capacity a slice may have past its length
CapSlack == 3
\* most class defs in an image
MaxClasses == 2
\* most calls of Dump and Disassemble after Open
MaxCalls == 2

-----------------------------------------------------------------------------
(* uint32 arithmetic on 16-bit limbs.                                      *)

Limb == 256 * 256

Pow2(n) == 2 ^ n

Zero32 == <<0, 0>>

\* the one element of a singleton: Only({e : x \in {v}}) is e with x bound
\* to the value of v
Only(S) == CHOOSE x \in S : TRUE

\* uint32(n) for a natural n below 2^31
U32(n) == <<n \div Limb, n % Limb>>

\* the natural a uint32 below 2^31 stands for
ToNat(v) == v[1] * Limb + v[2]

\* x + y on uint32
Add32(x, y) ==
    LET lo == x[2] + y[2]
    IN  <<(x[1] + y[1] + (lo \div Limb)) % Limb, lo % Limb>>

\* uint32(x) << s for a byte x; Go shifts out everything at s >= 32
Shl32(x, s) ==
    IF s >= 32 THEN Zero32
    ELSE IF s >= 16 THEN <<(x * Pow2(s - 16)) % Limb, 0>>
    ELSE <<((x * Pow2(s)) \div Limb) % Limb, (x * Pow2(s)) % Limb>>

-----------------------------------------------------------------------------
(* Go slices.                                                              *)

Zeros(n) == IF n <= 0 THEN <<>> ELSE [k \in 1..n |-> 0]

Slice(bytes, cap) == [bytes |-> bytes, cap |-> cap]

\* s[lo:] is legal iff lo <= len(s)
CanSliceFrom(s, lo) == lo <= Len(s.bytes)
SliceFrom(s, lo) == Slice(SubSeq(s.bytes, lo + 1, Len(s.bytes)), s.cap - lo)

\* s[0:hi] is legal iff hi <= cap(s); elements past len read as zero
CanSliceTo(s, hi) == hi <= s.cap
SliceTo(s, hi) ==
    Slice(SubSeq(s.bytes \o Zeros(hi - Len(s.bytes)), 1, hi), s.cap)

\* s[lo:hi] is legal iff lo <= hi <= cap(s)
CanSliceRange(s, lo, hi) == lo <= hi /\ hi <= s.cap
SliceRange(s, lo, hi) ==
    Slice(SubSeq(s.bytes \o Zeros(hi - Len(s.bytes)), lo + 1, hi), s.cap - lo)

\* s[i] is legal iff i < len(s)
CanIndex(s, i) == i < Len(s.bytes)
At(s, i) == s.bytes[i + 1]

\* binary.LittleEndian.Uint32 / Uint16 of a slice of 4 / 2 bytes
LittleEndianUint32(s) ==
    <<At(s, 3) * 256 + At(s, 2), At(s, 1) * 256 + At(s, 0)>>
LittleEndianUint16(s) == At(s, 1) * 256 + At(s, 0)

-----------------------------------------------------------------------------
(* pack.go: the ULEB128 decoders.                                          *)

\* a variant that forgets the 0x7F mask on continuation bytes
RECURSIVE uleb128Loop_NoMask(_, _, _)
uleb128Loop_NoMask(data, i, value) ==
    CASE i >= 5 -> [panic |-> FALSE, i |-> i, value |-> value]
      [] i < 5 /\ ~CanIndex(data, i) -> [panic |-> TRUE, i |-> i, value |-> value]
      [] i < 5 /\ CanIndex(data, i) /\ At(data, i) < 128 ->
           [panic |-> FALSE, i |-> i, value |-> value]
      [] OTHER ->
           CHOOSE res \in {
               uleb128Loop_NoMask(data, i + 1, v)
               : v \in {Add32(value, Shl32(At(data, i), 7 * i))} } : TRUE

\* the for loop of uleb128: stops at i = 5 or at the first byte without the
\* continuation bit; data[i] panics when i is past the slice's length
RECURSIVE uleb128Loop(_, _, _)
uleb128Loop(data, i, value) ==
    CASE i >= 5 -> [panic |-> FALSE, i |-> i, value |-> value]
      [] i < 5 /\ ~CanIndex(data, i) -> [panic |-> TRUE, i |-> i, value |-> value]
      [] i < 5 /\ CanIndex(data, i) /\ At(data, i) < 128 ->
           [panic |-> FALSE, i |-> i, value |-> value]
      [] OTHER ->
           CHOOSE res \in {
               uleb128Loop(data, i + 1, v)
               : v \in {Add32(value, Shl32(At(data, i) % 128, 7 * i))} } : TRUE

\* the result of a decoder call: value, bytes consumed, error, whether it
\* panicked, and the number of input bytes it touched (highest index + 1)
CodecResult(value, n, err, panic, read) ==
    [value |-> value, n |-> n, err |-> err, panic |-> panic, read |-> read]

\* a variant that shifts the last byte as a byte, before widening it
UlebFinish_Narrow(data, l) ==
    IF l.panic \/ ~CanIndex(data, l.i)
    THEN CodecResult(Zero32, 0, "nil", TRUE, l.i + 1)
    ELSE CodecResult(Add32(l.value,
                           IF 7 * l.i >= 8 THEN Zero32
                           ELSE U32((At(data, l.i) * Pow2(7 * l.i)) % 256)),
                     l.i + 1, "nil", FALSE, l.i + 1)

\* what follows the loop in uleb128 and unpackUleb128: one more byte is read
\* at data[i] and added, whatever i is
UlebFinish(data, l) ==
    IF l.panic \/ ~CanIndex(data, l.i)
    THEN CodecResult(Zero32, 0, "nil", TRUE, l.i + 1)
    ELSE CodecResult(Add32(l.value, Shl32(At(data, l.i), 7 * l.i)),
                     l.i + 1, "nil", FALSE, l.i + 1)

\* func uleb128(data []byte) (uint32, uint32)
uleb128(data) == UlebFinish(data, uleb128Loop(data, 0, Zero32))

\* func unpackUleb128(data []byte, val reflect.Value) (uint, error): the same
\* loop, the value stored with val.SetUint, the error always nil
unpackUleb128(data) == UlebFinish(data, uleb128Loop(data, 0, Zero32))

-----------------------------------------------------------------------------
(* The record types Unpack is applied to: each field's name, its pack tag, *)
(* the kind of its Go type, and its length (arrays) or type (structs).     *)

Fld(name, tag, kind, len, type) ==
    [name |-> name, tag |-> tag, kind |-> kind, len |-> len, type |-> type]

UintFld(name, tag) == Fld(name, tag, "uint", 0, "")
DexFld == Fld("dex", "-", "ptr", 0, "")

HeaderDesc ==
    << Fld("Magic", "byte", "array", 8, ""),
       UintFld("Checksum", "uint"),
       Fld("Signature", "byte", "array", 20, ""),
       UintFld("FileSize", "uint"),
       UintFld("HeaderSize", "uint"),
       UintFld("EndianTag", "uint"),
       UintFld("LinkSize", "uint"),
       UintFld("LinkOff", "uint"),
       UintFld("MapOff", "uint"),
       UintFld("StringIdsSize", "uint"),
       UintFld("StringIdsOffset", "uint"),
       UintFld("TypeIdsSize", "uint"),
       UintFld("TypeIdsOffset", "uint"),
       UintFld("ProtosSize", "uint"),
       UintFld("ProtosOffset", "uint"),
       UintFld("FieldsSize", "uint"),
       UintFld("FieldsOffset", "uint"),
       UintFld("MethodIdsSize", "uint"),
       UintFld("MethodIdsOffset", "uint"),
       UintFld("ClassDefsSize", "uint"),
       UintFld("ClassDefsOffset", "uint"),
       UintFld("DataSize", "uint"),
       UintFld("DataOffset", "uint") >>

ClassDefItemDesc ==
    << DexFld,
       UintFld("ClassIdx", "uint"),
       UintFld("AccessFlags", "uint"),
       UintFld("SuperclassIdx", "uint"),
       UintFld("InterfacesOffset", "uint"),
       UintFld("SourceFileIdx", "uint"),
       UintFld("AnnotationsOffset", "uint"),
       Fld("ClassData", "classdata", "struct", 0, "ClassDataItem"),
       Fld("StaticValues", "staticvalues", "slice", 0, "") >>

FieldIdItemDesc ==
    << DexFld,
       UintFld("ClassIdx", "ushort"),
       UintFld("TypeIdx", "ushort"),
       UintFld("NameIdx", "uint") >>

MethodIdItemDesc ==
    << DexFld,
       UintFld("ClassIdx", "ushort"),
       UintFld("ProtoIdx", "ushort"),
       UintFld("NameIdx", "uint") >>

ProtoIdItemDesc ==
    << DexFld,
       UintFld("ShortyIdx", "uint"),
       UintFld("ReturnTypeIdx", "uint"),
       UintFld("ParametersOffset", "uint") >>

TypeIdDesc == << DexFld, UintFld("DescriptorIdx", "uint") >>

EncodedValueDesc ==
    << DexFld,
       Fld("ValueType", "-", "uint", 0, ""),
       Fld("Data", "-", "slice", 0, "") >>

EncodedArrayDesc ==
    << UintFld("Size", "uleb128"),
       Fld("Values", "encodedvalue", "slice", 0, "") >>

EncodedFieldDesc ==
    << DexFld,
       Fld("Field", "-", "struct", 0, "FieldIdItem"),
       UintFld("FieldIdxDiff", "uleb128"),
       UintFld("AccessFlags", "uleb128") >>

EncodedMethodDesc ==
    << DexFld,
       Fld("Method", "-", "struct", 0, "MethodIdItem"),
       UintFld("MethodIdxDiff", "uleb128"),
       UintFld("AccessFlags", "uleb128"),
       UintFld("CodeOffset", "uleb128") >>

ClassDataItemDesc ==
    << UintFld("StaticFieldSize", "uleb128"),
       UintFld("InstanceFieldSize", "uleb128"),
       UintFld("DirectMethodsSize", "uleb128"),
       UintFld("VirtualMethodsSize", "uleb128"),
       Fld("StaticFields", "staticfields", "slice", 0, ""),
       Fld("InstanceFields", "instancefields", "slice", 0, ""),
       Fld("DirectMethods", "directmethods", "slice", 0, ""),
       Fld("VirtualMethods", "virtualmethods", "slice", 0, "") >>

\* Unpack takes any struct: a caller's record whose first field carries the
\* byte tag on a scalar, which unpackByteArray refuses
CallerRecordDesc == << UintFld("A", "byte"), UintFld("B", "uint") >>

TypeDesc(t) ==
    CASE t = "Header" -> HeaderDesc
      [] t = "ClassDefItem" -> ClassDefItemDesc
      [] t = "FieldIdItem" -> FieldIdItemDesc
      [] t = "MethodIdItem" -> MethodIdItemDesc
      [] t = "ProtoIdItem" -> ProtoIdItemDesc
      [] t = "TypeId" -> TypeIdDesc
      [] t = "EncodedValue" -> EncodedValueDesc
      [] t = "EncodedArray" -> EncodedArrayDesc
      [] t = "EncodedField" -> EncodedFieldDesc
      [] t = "EncodedMethod" -> EncodedMethodDesc
      [] t = "ClassDataItem" -> ClassDataItemDesc
      [] t = "CallerRecord" -> CallerRecordDesc

FieldNames(desc) == {desc[k].name : k \in 1..Len(desc)}
FieldOf(desc, name) == CHOOSE f \in {desc[k] : k \in 1..Len(desc)} : f.name = name

\* the zero value of a Go type
RECURSIVE ZeroObj(_)
ZeroObj(t) ==
    LET desc == TypeDesc(t)
        zero(f) == CASE f.kind = "uint" -> Zero32
                     [] f.kind = "array" -> Zeros(f.len)
                     [] f.kind = "slice" -> <<>>
                     [] f.kind = "ptr" -> "nil"
                     [] f.kind = "struct" -> ZeroObj(f.type)
    IN  [n \in FieldNames(desc) |-> zero(FieldOf(desc, n))]

\* T{dex: d}
NewItem(t) == [ZeroObj(t) EXCEPT !["dex"] = "dex"]

-----------------------------------------------------------------------------
(* SpecCodec: the inputs of the primitive decoders.                        *)

\* bytes with and without the continuation bit
ByteAlphabet == {0, 127, 128}

SeqsUpTo(A, n) == UNION {[1..k -> A] : k \in 0..n}

\* the inputs of the package's test and of the documented golden values
GoldenInputs == {<<0>>, <<1>>, <<127>>, <<128, 127>>, <<229, 142, 38>>}

\* the five 7-bit groups of a uint32, least significant first
Groups(v) ==
    << v[2] % 128,
       (v[2] \div 128) % 128,
       (v[2] \div 16384) + (v[1] % 32) * 4,
       (v[1] \div 32) % 128,
       v[1] \div 4096 >>

\* the uint32 with the given groups (g[5] below 16)
FromGroups(g) ==
    << g[5] * 4096 + g[4] * 32 + (g[3] \div 4),
       (g[3] % 4) * 16384 + g[2] * 128 + g[1] >>

\* the number of groups up to the most significant non-zero one, at least 1
RECURSIVE Significant(_, _)
Significant(g, n) == IF n > 1 /\ g[n] = 0 THEN Significant(g, n - 1) ELSE n

\* the canonical ULEB128 encoding of a uint32: every group but the last
\* carries the continuation bit
EncodeUleb(v) ==
    LET g == Groups(v)
        n == Significant(g, 5)
    IN  [i \in 1..n |-> IF i < n THEN g[i] + 128 ELSE g[i]]

\* uint32 values on both sides of every length boundary, up to 2^32 - 1
RoundTripValues ==
    {FromGroups(g[1] \o g[2]) :
        g \in [1..4 -> {0, 1, 127}] \X {<<0>>, <<1>>, <<8>>, <<15>>}}

\* inputs as long as the records of fixed-width fields, and as the uint
\* fields of a class def, every byte different from the others
RecordInputs == { [k \in 1..n |-> k] : n \in {8, 12, 24, 112} }

CodecInputs ==
    SeqsUpTo(ByteAlphabet, MaxLen) \cup GoldenInputs \cup RecordInputs
        \cup {EncodeUleb(v) : v \in RoundTripValues}

NoResult == CodecResult(Zero32, 0, "nil", FALSE, 0)

-----------------------------------------------------------------------------
(* pack.go: the codec registry and Unpack.                                 *)

\* a registered codec: the function, and for a closure of Parse the class
\* loop iteration whose class_def_item it captured (-1: none)
Codec(fn, owner) == [fn |-> fn, owner |-> owner]

\* func RegisterPack(name string, fn PackFunc): packs[name] = fn
RegisterPack(registry, name, fn) ==
    [t \in DOMAIN registry \cup {name} |-> IF t = name THEN fn ELSE registry[t]]

\* var packs = map[string]PackFunc{} and the four registrations that
\* initialise the package's variables
BuiltinPacks ==
    RegisterPack(
      RegisterPack(
        RegisterPack(
          RegisterPack(<<>>, "uleb128", Codec("unpackUleb128", -1)),
          "uint", Codec("unpackUint", -1)),
        "ushort", Codec("unpackUshort", -1)),
      "byte", Codec("unpackByteArray", -1))

\* What a call works on.  packs: the registry; file, tables: the b and dex
\* that Parse's closures captured; cdi: the class_def_item they captured;
\* obj: the struct a leaf Unpack fills; local: a closure's local variables;
\* panic: a runtime panic has unwound the call; calls, errs: the codecs
\* invoked and the errors they returned; side: the side offsets followed.
Env(registry, file, tables, cdi) ==
    [packs |-> registry, file |-> file, tables |-> tables, cdi |-> cdi,
     obj |-> <<>>, local |-> <<>>, panic |-> FALSE,
     calls |-> <<>>, errs |-> <<>>, side |-> <<>>]

Panicked(env) == [env EXCEPT !.panic = TRUE]

\* the variable a target names: "obj" the struct of a leaf Unpack, "cdi"
\* the captured class_def_item, "cd" its ClassData, "local" a closure's
\* local variable
SetField(env, target, name, v) ==
    CASE target = "obj" -> [env EXCEPT !.obj[name] = v]
      [] target = "cdi" -> [env EXCEPT !.cdi[name] = v]
      [] target = "cd" -> [env EXCEPT !.cdi.ClassData[name] = v]
      [] target = "local" -> [env EXCEPT !.local[name] = v]

PackResult(length, err, env) == [length |-> length, err |-> err, env |-> env]

\* func unpackUint: val.SetUint(LittleEndian.Uint32(data[0:4])); return 4, nil
unpackUint(data, target, f, env) ==
    IF ~CanSliceTo(data, 4) \/ f.kind # "uint"
    THEN PackResult(0, "nil", Panicked(env))
    ELSE PackResult(4, "nil",
             SetField(env, target, f.name, LittleEndianUint32(SliceTo(data, 4))))

\* func unpackUshort: val.SetUint(LittleEndian.Uint16(data[0:2])); return 2, nil
unpackUshort(data, target, f, env) ==
    IF ~CanSliceTo(data, 2) \/ f.kind # "uint"
    THEN PackResult(0, "nil", Panicked(env))
    ELSE PackResult(2, "nil",
             SetField(env, target, f.name, U32(LittleEndianUint16(SliceTo(data, 2)))))

\* func unpackByteArray: an array is filled with data[0:val.Len()]; any
\* other kind is refused with an error, which is noted in env
unpackByteArray(data, target, f, env) ==
    IF f.kind = "array"
    THEN IF ~CanSliceTo(data, f.len)
         THEN PackResult(0, "nil", Panicked(env))
         ELSE PackResult(f.len, "nil",
                  SetField(env, target, f.name, SliceTo(data, f.len).bytes))
    ELSE PackResult(0, "Invalid field",
             [env EXCEPT !.errs = Append(@, [field |-> f.name,
                                             err |-> "Invalid field",
                                             at |-> Len(env.calls)])])

\* unpackUleb128 as a codec: the decoded value goes to val
unpackUleb128Pack(data, target, f, env) ==
    LET r == unpackUleb128(data)
    IN  IF r.panic \/ f.kind # "uint"
        THEN PackResult(0, "nil", Panicked(env))
        ELSE PackResult(r.n, r.err, SetField(env, target, f.name, r.value))

\* var offset uint32, var size uint64, var val uint32 of the closures
ZeroLocals == [n \in {"offset", "size", "val"} |-> Zero32]

Followed(env, codec, off) ==
    [env EXCEPT !.side = Append(@, [codec |-> codec, off |-> off])]

VALUE_STRING == 23

RECURSIVE Unpack(_, _, _, _)
RECURSIVE UnpackFields(_, _, _, _, _, _)
RECURSIVE CallPack(_, _, _, _, _)
RECURSIVE ListLoop(_, _, _, _, _, _, _, _, _, _)
RECURSIVE StaticValuesLoop(_, _, _, _, _, _)
RECURSIVE StringIdx(_, _, _, _, _)

\* a variant that reads the class data at offset 0 too
classdata_Always(data, env) ==
    CHOOSE res \in {
        CASE r.env.panic -> r
          [] ~r.env.panic
               /\ ~CanSliceFrom(env.file, ToNat(r.env.local["offset"])) ->
               PackResult(0, "nil", Panicked(r.env))
          [] OTHER ->
               [length |-> r.length, err |-> r.err,
                env |-> Unpack(SliceFrom(env.file, ToNat(r.env.local["offset"])),
                               "ClassDataItem", "cd",
                               Followed(r.env, "classdata",
                                        ToNat(r.env.local["offset"]))).env]
        : r \in {CallPack("uint", data, "local", UintFld("offset", "uint"),
                          [env EXCEPT !.local = ZeroLocals])} } : TRUE

\* the classdata closure of Parse
classdata(data, env) ==
    CHOOSE res \in {
        CASE r.env.panic \/ ToNat(r.env.local["offset"]) = 0 -> r
          [] ~r.env.panic /\ ToNat(r.env.local["offset"]) # 0
               /\ ~CanSliceFrom(env.file, ToNat(r.env.local["offset"])) ->
               PackResult(0, "nil", Panicked(r.env))
          [] OTHER ->
               [length |-> r.length, err |-> r.err,
                env |-> Unpack(SliceFrom(env.file, ToNat(r.env.local["offset"])),
                               "ClassDataItem", "cd",
                               Followed(r.env, "classdata",
                                        ToNat(r.env.local["offset"]))).env]
        : r \in {CallPack("uint", data, "local", UintFld("offset", "uint"),
                          [env EXCEPT !.local = ZeroLocals])} } : TRUE

\* dex.Fields for an EncodedField's Field, dex.Methods for an
\* EncodedMethod's Method
TableOf(refName) == IF refName = "Field" THEN "Fields" ELSE "Methods"

\* a variant that assigns the diff instead of adding it
NextIdx_Assign(idx, diff) == diff

\* field_idx += uint64(ef.FieldIdxDiff), method_idx += uint64(em.MethodIdxDiff)
NextIdx(idx, diff) == idx + diff

\* the loop of a list closure, from element j on: offset is the closure's
\* byte offset into data, idx its running field_idx / method_idx
ListLoop(data, env, list, size, elemType, diffName, refName, j, offset, idx) ==
    CASE j >= size -> PackResult(offset, "nil", env)
      [] j < size /\ ~CanSliceFrom(data, offset) ->
           PackResult(offset, "nil", Panicked(env))
      [] OTHER ->
           CHOOSE res \in {
               CASE u.env.panic -> PackResult(offset, "nil", u.env)
                 [] ~u.env.panic
                      /\ NextIdx(idx, ToNat(u.env.obj[diffName]))
                           >= Len(u.env.tables[TableOf(refName)]) ->
                      PackResult(offset, "nil", Panicked(u.env))
                 [] OTHER ->
                      ListLoop(data,
                          [u.env EXCEPT !.cdi.ClassData[list][j + 1] =
                              [u.env.obj EXCEPT ![refName] =
                                  u.env.tables[TableOf(refName)]
                                      [NextIdx(idx, ToNat(u.env.obj[diffName])) + 1]]],
                          list, size, elemType, diffName, refName,
                          j + 1, offset + u.offset,
                          NextIdx(idx, ToNat(u.env.obj[diffName])))
               : u \in {Unpack(SliceFrom(data, offset), elemType, "obj",
                               [env EXCEPT !.obj = NewItem(elemType)])} } : TRUE

\* a list closure: the list is allocated with the count decoded into the
\* captured ClassData, then filled element by element from index idx0
ListCodec(data, env, list, sizeName, elemType, diffName, refName, idx0) ==
    ListLoop(data,
             [env EXCEPT !.cdi.ClassData[list] =
                 [k \in 1..ToNat(env.cdi.ClassData[sizeName]) |->
                    ZeroObj(elemType)]],
             list, ToNat(env.cdi.ClassData[sizeName]),
             elemType, diffName, refName, 0, 0, idx0)

\* the sum of the diffs of a decoded list
SumDiffs(list, diffName) ==
    LET sum[k \in 0..Len(list)] ==
          IF k = 0 THEN 0 ELSE sum[k - 1] + ToNat(list[k][diffName])
    IN  sum[Len(list)]

\* the staticfields, instancefields, directmethods and virtualmethods
\* closures of Parse: each starts its own running index at 0
staticfields(data, env) ==
    ListCodec(data, env, "StaticFields", "StaticFieldSize",
              "EncodedField", "FieldIdxDiff", "Field", 0)

\* a variant whose running index goes on from the last static field
instancefields_Shared(data, env) ==
    ListCodec(data, env, "InstanceFields", "InstanceFieldSize",
              "EncodedField", "FieldIdxDiff", "Field",
              SumDiffs(env.cdi.ClassData["StaticFields"], "FieldIdxDiff"))

instancefields(data, env) ==
    ListCodec(data, env, "InstanceFields", "InstanceFieldSize",
              "EncodedField", "FieldIdxDiff", "Field", 0)

directmethods(data, env) ==
    ListCodec(data, env, "DirectMethods", "DirectMethodsSize",
              "EncodedMethod", "MethodIdxDiff", "Method", 0)

virtualmethods(data, env) ==
    ListCodec(data, env, "VirtualMethods", "VirtualMethodsSize",
              "EncodedMethod", "MethodIdxDiff", "Method", 0)

\* stringIdx = stringIdx + uint32(b[offset+1+k])<<(k*8) for k <= size2;
\* <<>> when an index expression panics
StringIdx(file, offset, k, size2, acc) ==
    IF k > size2 THEN acc
    ELSE IF ~CanIndex(file, offset + 1 + k) THEN <<>>
    ELSE Only({ StringIdx(file, offset, k + 1, size2, sum)
              : sum \in {Add32(acc, Shl32(At(file, offset + 1 + k), k * 8))} })

\* the loop of the staticvalues closure: the header byte is read with
\* packs["ubyte"], offset advances by (val & 0x0E) >> 5, which is 0
StaticValuesLoop(env, j, size, offset, length, err) ==
    IF j >= size
    THEN PackResult(length, err, env)
    ELSE IF ~CanSliceFrom(env.file, offset)
         THEN PackResult(length, err, Panicked(env))
         ELSE Only({
                IF r.env.panic
                THEN PackResult(length, err, r.env)
                ELSE Only({
                       IF (r.env.local["val"][2] % 32) = VALUE_STRING
                          /\ (idx = <<>> \/ idx[1] # 0
                              \/ idx[2] >= Len(env.tables["Strings"]))
                       THEN PackResult(length, err, Panicked(r.env))
                       ELSE StaticValuesLoop(
                                [r.env EXCEPT !.cdi.StaticValues[j + 1] =
                                    NewItem("EncodedValue")],
                                j + 1, size, offset, r.length, err)
                     : idx \in {StringIdx(env.file, offset, 0,
                                          (r.env.local["val"][2] % 256) \div 32,
                                          Zero32)} })
              : r \in {CallPack("ubyte", SliceFrom(env.file, offset), "local",
                                UintFld("val", "ubyte"),
                                [env EXCEPT !.local["val"] = Zero32])} })

\* the staticvalues closure of Parse, once its offset is known to be non-zero
StaticValuesAt(env, offset) ==
    IF ~CanSliceFrom(env.file, offset)
    THEN PackResult(0, "nil", Panicked(env))
    ELSE Only({
           IF r2.env.panic
           THEN r2
           ELSE Only({
                  StaticValuesLoop(
                      [r2.env EXCEPT !.cdi.StaticValues =
                          [k \in 1..size |-> ZeroObj("EncodedValue")]],
                      0, size, offset + r2.length, r2.length, r2.err)
                : size \in {ToNat(r2.env.local["size"])} })
         : r2 \in {CallPack("uleb128", SliceFrom(env.file, offset), "local",
                            UintFld("size", "uleb128"),
                            Followed(env, "staticvalues", offset))} })

\* the staticvalues closure of Parse
staticvalues(data, env) ==
    CHOOSE res \in {
        IF r.env.panic \/ ToNat(r.env.local["offset"]) = 0
        THEN r
        ELSE StaticValuesAt(r.env, ToNat(r.env.local["offset"]))
        : r \in {CallPack("uint", data, "local", UintFld("offset", "uint"),
                          [env EXCEPT !.local = ZeroLocals])} } : TRUE

\* the function registered under tag, "" when there is none
Registered(registry, tag) ==
    IF tag \in DOMAIN registry THEN registry[tag].fn ELSE ""

\* env once the call of the codec registered under tag for field f is noted
Called(env, tag, f) ==
    [env EXCEPT !.calls = Append(@, [tag |-> tag, field |-> f.name,
                                     owner |-> env.packs[tag].owner])]

\* packs[tag](data, val): the codec registered under tag is applied; calling
\* an entry the registry lacks calls a nil func, which panics
CallPack(tag, data, target, f, env) ==
    CASE Registered(env.packs, tag) = "" -> PackResult(0, "nil", Panicked(env))
      [] Registered(env.packs, tag) = "unpackUint" ->
           unpackUint(data, target, f, Called(env, tag, f))
      [] Registered(env.packs, tag) = "unpackUshort" ->
           unpackUshort(data, target, f, Called(env, tag, f))
      [] Registered(env.packs, tag) = "unpackByteArray" ->
           unpackByteArray(data, target, f, Called(env, tag, f))
      [] Registered(env.packs, tag) = "unpackUleb128" ->
           unpackUleb128Pack(data, target, f, Called(env, tag, f))
      [] Registered(env.packs, tag) = "classdata" ->
           classdata(data, Called(env, tag, f))
      [] Registered(env.packs, tag) = "staticfields" ->
           staticfields(data, Called(env, tag, f))
      [] Registered(env.packs, tag) = "instancefields" ->
           instancefields(data, Called(env, tag, f))
      [] Registered(env.packs, tag) = "directmethods" ->
           directmethods(data, Called(env, tag, f))
      [] Registered(env.packs, tag) = "virtualmethods" ->
           virtualmethods(data, Called(env, tag, f))
      [] Registered(env.packs, tag) = "staticvalues" ->
           staticvalues(data, Called(env, tag, f))

UnpackResult(offset, err, env) == [offset |-> offset, err |-> err, env |-> env]

\* a variant of the iteration that hands every codec b[offset:] but takes
\* the length the codec returned for the new offset
UnpackField_Restart(st, data, f, target) ==
    CASE st.env.panic \/ st.err # "nil" \/ f.tag = "-" -> st
      [] ~(st.env.panic \/ st.err # "nil" \/ f.tag = "-")
           /\ f.tag \notin DOMAIN st.env.packs ->
           UnpackResult(st.offset, "Not implemented type ", st.env)
      [] ~(st.env.panic \/ st.err # "nil" \/ f.tag = "-")
           /\ f.tag \in DOMAIN st.env.packs
           /\ ~CanSliceFrom(data, st.offset) ->
           UnpackResult(st.offset, "nil", Panicked(st.env))
      [] OTHER ->
           CHOOSE res \in {
               UnpackResult(IF r.env.panic THEN st.offset ELSE r.length,
                            "nil", r.env)
               : r \in {CallPack(f.tag, SliceFrom(data, st.offset),
                                 target, f, st.env)} } : TRUE

\* one iteration of the field loop of Unpack, for field f, after the
\* iterations that left st: a "-" tag is skipped, a registered tag's codec
\* gets b[offset:] and the field, its length is added to offset and its
\* error is dropped; an unregistered tag ends Unpack with an error
UnpackField(st, data, f, target) ==
    CASE st.env.panic \/ st.err # "nil" \/ f.tag = "-" -> st
      [] ~(st.env.panic \/ st.err # "nil" \/ f.tag = "-")
           /\ f.tag \notin DOMAIN st.env.packs ->
           UnpackResult(st.offset, "Not implemented type ", st.env)
      [] ~(st.env.panic \/ st.err # "nil" \/ f.tag = "-")
           /\ f.tag \in DOMAIN st.env.packs
           /\ ~CanSliceFrom(data, st.offset) ->
           UnpackResult(st.offset, "nil", Panicked(st.env))
      [] OTHER ->
           CHOOSE res \in {
               UnpackResult(IF r.env.panic THEN st.offset
                            ELSE st.offset + r.length,
                            "nil", r.env)
               : r \in {CallPack(f.tag, SliceFrom(data, st.offset),
                                 target, f, st.env)} } : TRUE

\* the iterations for fields lo..hi of the field loop of Unpack, in order
UnpackFields(data, desc, lo, hi, target, st) ==
    CASE lo = hi -> UnpackField(st, data, desc[lo], target)
      [] lo + 1 = hi ->
           CHOOSE res \in {
               UnpackField(st1, data, desc[hi], target)
               : st1 \in {UnpackField(st, data, desc[lo], target)} } : TRUE
      [] OTHER ->
           CHOOSE res \in {
               UnpackFields(data, desc, ((lo + hi) \div 2) + 1, hi, target, st1)
               : st1 \in {UnpackFields(data, desc, lo, (lo + hi) \div 2,
                                       target, st)} } : TRUE

\* func Unpack(b []byte, o interface{}) (int, error), o a pointer to a
\* struct of type t
Unpack(data, t, target, env) ==
    UnpackFields(data, TypeDesc(t), 1, Len(TypeDesc(t)), target,
                 UnpackResult(0, "nil", env))

-----------------------------------------------------------------------------
(* SpecCodec: one call of uleb128, of unpackUleb128 or of Unpack on an     *)
(* input drawn from CodecInputs.                                           *)

RecordTypes ==
    {"Header", "ClassDefItem", "FieldIdItem", "MethodIdItem", "ProtoIdItem",
     "TypeId", "EncodedValue", "EncodedArray", "EncodedField", "EncodedMethod",
     "ClassDataItem", "CallerRecord"}

NoTables == [n \in {"Strings", "Fields", "Methods"} |-> <<>>]

\* no call of Dump or Disassemble made yet
NoCall == [call |-> "none"]

\* no pair of concurrent calls
NoPair == <<>>

\* the Open / Parse variables while only a decoder is exercised
ParseIdle ==
    /\ img = <<>> /\ b = <<>> /\ bcap = 0 /\ pc = "idle"
    /\ dex = <<>> /\ ci = 0 /\ packs = BuiltinPacks
    /\ parseErr = "none" /\ openRes = "none" /\ trace = <<>>
    /\ out = NoCall /\ ncalls = 0

InitCodec ==
    /\ cin \in CodecInputs
    /\ cpc = "ready" /\ cop = "none" /\ cres = NoResult
    /\ ParseIdle /\ par = NoPair

CallUleb128 ==
    /\ cpc = "ready"
    /\ cres' = uleb128(Slice(cin, Len(cin)))
    /\ cop' = "uleb128" /\ cpc' = "done"
    /\ UNCHANGED <<cin, pvars, dvars, par>>

CallUnpackUleb128 ==
    /\ cpc = "ready"
    /\ cres' = unpackUleb128(Slice(cin, Len(cin)))
    /\ cop' = "unpackUleb128" /\ cpc' = "done"
    /\ UNCHANGED <<cin, pvars, dvars, par>>

\* Unpack(cin, &o) for an o of record type t, cin having slack spare capacity
CallUnpack ==
    /\ cpc = "ready"
    /\ \E t \in RecordTypes, slack \in {0, CapSlack} :
         LET u == Unpack(Slice(cin, Len(cin) + slack), t, "obj",
                         [Env(packs, Slice(<<>>, 0), NoTables, ZeroObj("ClassDefItem"))
                             EXCEPT !.obj = ZeroObj(t)])
         IN  cres' = [type |-> t, obj |-> u.env.obj, n |-> u.offset, err |-> u.err,
                      panic |-> u.env.panic, calls |-> u.env.calls,
                      errs |-> u.env.errs]
    /\ cop' = "Unpack" /\ cpc' = "done"
    /\ UNCHANGED <<cin, pvars, dvars, par>>

NextCodec == CallUleb128 \/ CallUnpackUleb128 \/ CallUnpack

SpecCodec == InitCodec /\ [][NextCodec]_vars

-----------------------------------------------------------------------------
(* Spec: the DEX images Open is applied to.  An image is built from a      *)
(* parameter record img: whether the magic is the DEX magic, the class     *)
(* defs, where the file is cut short, and the spare capacity of the        *)
(* buffer it is read into.                                                 *)

\* field ids and method ids in an image
ImageFields == 10
ImageMethods == 4

DEX_FILE_MAGIC == <<100, 101, 120, 10, 48, 51, 53, 0>>

LE16(n) == <<n % 256, n \div 256>>
LE32(n) == <<n % 256, (n \div 256) % 256, (n \div 65536) % 256, n \div 16777216>>
Uleb(n) == EncodeUleb(U32(n))

RECURSIVE FlattenRange(_, _, _)
FlattenRange(ss, lo, hi) ==
    IF lo > hi THEN <<>>
    ELSE IF lo = hi THEN ss[lo]
    ELSE FlattenRange(ss, lo, (lo + hi) \div 2)
           \o FlattenRange(ss, ((lo + hi) \div 2) + 1, hi)
Flatten(ss) == FlattenRange(ss, 1, Len(ss))

\* the string data items: "X", "ab", the two-byte, one-unit U+00A3, "c",
\* "d", "e", "f" and, at index 7, "hi"
ImageStrings ==
    << [units |-> 1, bytes |-> <<88>>],
       [units |-> 2, bytes |-> <<97, 98>>],
       [units |-> 1, bytes |-> <<194, 163>>],
       [units |-> 1, bytes |-> <<99>>],
       [units |-> 1, bytes |-> <<100>>],
       [units |-> 1, bytes |-> <<101>>],
       [units |-> 1, bytes |-> <<102>>],
       [units |-> 2, bytes |-> <<104, 105>>] >>
StringItem(str) == Uleb(str.units) \o str.bytes \o <<0>>

ImageTypes == <<0, 1>>
ImageProtos == <<[shorty |-> 0, ret |-> 0, params |-> 0]>>

\* field id i and method id i, all different from one another
ImageField(i) == [class |-> i % 2, type |-> (i \div 2) % 2, name |-> (i \div 4) % 3]
ImageMethod(i) == [class |-> i % 2, proto |-> 0, name |-> (i \div 2) % 3]

\* access flags of list element k: one-byte and three-byte ULEB128 values
ImageFlags(k) == IF k % 2 = 1 THEN 1 ELSE 65537

EncodedFieldsBytes(diffs) ==
    Flatten([k \in 1..Len(diffs) |-> Uleb(diffs[k]) \o Uleb(ImageFlags(k))])
EncodedMethodsBytes(diffs, codeOff) ==
    Flatten([k \in 1..Len(diffs) |->
                Uleb(diffs[k]) \o Uleb(ImageFlags(k)) \o Uleb(codeOff)])

\* the instructions of the class's code, one after the other
CodeBytes(c) == Flatten(c.code)

\* a code_item: registers_size, ins_size, outs_size, tries_size,
\* debug_info_off, insns_size in code units, insns
CodeItemBytes(c) ==
    IF c.code = <<>> THEN <<>>
    ELSE LE16(1) \o LE16(0) \o LE16(0) \o LE16(0) \o LE32(0)
           \o LE32(Len(CodeBytes(c)) \div 2) \o CodeBytes(c)

\* a class_data_item: the direct methods have no code (code_off 0), the
\* virtual methods have the code item at codeOff, if the class has code
ClassDataBytes(c, codeOff) ==
    Uleb(Len(c.sf)) \o Uleb(Len(c.if)) \o Uleb(Len(c.dm)) \o Uleb(Len(c.vm))
      \o EncodedFieldsBytes(c.sf) \o EncodedFieldsBytes(c.if)
      \o EncodedMethodsBytes(c.dm, 0)
      \o EncodedMethodsBytes(c.vm, IF c.code = <<>> THEN 0 ELSE codeOff)

\* an encoded_array_item: empty, or [VALUE_STRING -> string 0, VALUE_INT -> 42]
EncodedArrayBytes(sv) ==
    IF sv = "empty" THEN <<0>> ELSE <<2, VALUE_STRING, 0, 4, 42>>

\* the data a class def points at: its class data, then its static values
ClassBlob(c, codeOff) ==
    (IF c.data THEN ClassDataBytes(c, codeOff) ELSE <<>>)
      \o (IF c.sv = "none" THEN <<>> ELSE EncodedArrayBytes(c.sv))

\* the class def of class k, whose blob starts at off
ClassDefBytes(c, k, off, codeOff) ==
    LE32(k % 2) \o LE32(1) \o LE32(0) \o LE32(0) \o LE32(0) \o LE32(0)
      \o LE32(IF c.data THEN off ELSE 0)
      \o LE32(IF c.sv = "none" THEN 0
              ELSE off + (IF c.data THEN Len(ClassDataBytes(c, codeOff)) ELSE 0))

RECURSIVE SumLen(_, _)
SumLen(ss, n) == IF n = 0 THEN 0 ELSE SumLen(ss, n - 1) + Len(ss[n])

\* the whole file, before it is cut
ImageBytes(p) ==
    LET nc == Len(p.classes)
        strItems == [k \in 1..Len(ImageStrings) |-> StringItem(ImageStrings[k])]
        codes == [k \in 1..nc |-> CodeItemBytes(p.classes[k])]
        stringIds == 112
        typeIds == stringIds + 4 * Len(ImageStrings)
        protoIds == typeIds + 4 * Len(ImageTypes)
        fieldIds == protoIds + 12 * Len(ImageProtos)
        methodIds == fieldIds + 8 * ImageFields
        classDefs == methodIds + 8 * ImageMethods
        data == classDefs + 32 * nc
        stringsAt == data + SumLen(codes, nc)
        blobsAt == stringsAt + SumLen(strItems, Len(strItems))
        blobs == [k \in 1..nc |->
                    ClassBlob(p.classes[k], data + SumLen(codes, k - 1))]
        size == blobsAt + SumLen(blobs, nc)
    IN  Flatten(<<
          IF p.magic THEN DEX_FILE_MAGIC ELSE <<100, 101, 121, 10, 48, 51, 53, 0>>,
          LE32(0), <<1, 0, 0, 0, 14, 0>> \o Zeros(14),
          LE32(size), LE32(112), <<120, 86, 52, 18>>,
          LE32(0), LE32(0), LE32(0),
          LE32(Len(ImageStrings)), LE32(stringIds),
          LE32(Len(ImageTypes)), LE32(typeIds),
          LE32(Len(ImageProtos)), LE32(protoIds),
          LE32(ImageFields), LE32(fieldIds),
          LE32(ImageMethods), LE32(methodIds),
          LE32(nc), LE32(classDefs),
          LE32(size - data), LE32(data),
          Flatten([k \in 1..Len(ImageStrings) |->
                     LE32(stringsAt + SumLen(strItems, k - 1))]),
          Flatten([k \in 1..Len(ImageTypes) |-> LE32(ImageTypes[k])]),
          Flatten([k \in 1..Len(ImageProtos) |->
                     LE32(ImageProtos[k].shorty) \o LE32(ImageProtos[k].ret)
                       \o LE32(ImageProtos[k].params)]),
          Flatten([k \in 1..ImageFields |->
                     LE16(ImageField(k - 1).class) \o LE16(ImageField(k - 1).type)
                       \o LE32(ImageField(k - 1).name)]),
          Flatten([k \in 1..ImageMethods |->
                     LE16(ImageMethod(k - 1).class) \o LE16(ImageMethod(k - 1).proto)
                       \o LE32(ImageMethod(k - 1).name)]),
          Flatten([k \in 1..nc |->
                     ClassDefBytes(p.classes[k], k - 1,
                                   blobsAt + SumLen(blobs, k - 1),
                                   data + SumLen(codes, k - 1))]),
          Flatten(codes),
          Flatten(strItems),
          Flatten(blobs) >>)

\* the bytes Open reads: the file, cut after p.cut bytes when p.cut >= 0
FileBytes(p) ==
    IF p.cut < 0 THEN ImageBytes(p)
    ELSE SubSeq(ImageBytes(p), 1, p.cut)

ClassConfig(data, sf, if, dm, vm, sv) ==
    [data |-> data, sf |-> sf, if |-> if, dm |-> dm, vm |-> vm, sv |-> sv,
     code |-> <<>>]

\* the class def c with code, a sequence of instructions, for its virtual
\* methods
WithCode(c, code) == [c EXCEPT !.code = code]

\* instructions as the Dalvik formats lay them out, each a whole number of
\* code units: nop, return-void, const/4, const-string v0 string@7,
\* const-string v1 string@0, const-string/jumbo v0 string@7, const/high16,
\* move/16, new-instance v0 type@1, add-int, and invoke-kind {v0} meth@2
\* and invoke-kind/range {v0} meth@2 for the five kinds
ValidInsns ==
    { <<0, 0>>, <<14, 0>>, <<18, 16>>, <<26, 0, 7, 0>>, <<26, 1, 0, 0>>,
      <<27, 0, 7, 0, 0, 0>>, <<21, 0, 0, 16>>, <<3, 0, 1, 0, 2, 0>>,
      <<34, 0, 1, 0>>, <<144, 0, 1, 2>> }
    \cup { <<op, 16, 2, 0, 0, 0>> : op \in 110..114 }
    \cup { <<op, 1, 2, 0, 0, 0>> : op \in 116..120 }

\* aget, a two-unit instruction the table gives no length for, and two
\* bytes that are no opcode
OtherInsns == { <<68, 0, 1, 2>>, <<62, 0>>, <<255, 0>> }

\* every byte as an opcode, followed by three zero bytes: two code units
ByteInsns == { <<op, 0, 0, 0>> : op \in 0..255 }

\* the method bodies: one instruction, or two of which one is a
\* return-void, a nop or a const-string
Bodies ==
    { <<i>> : i \in ValidInsns \cup OtherInsns \cup ByteInsns }
    \cup { <<i, j>> : i \in ValidInsns \cup OtherInsns,
                     j \in {<<14, 0>>, <<26, 0, 7, 0>>} }
    \cup { <<i, j>> : i \in {<<0, 0>>, <<14, 0>>}, j \in ValidInsns \cup OtherInsns }

\* class defs without class data, with the documented diff lists, with
\* lists that differ between static and instance and between direct and
\* virtual, with empty lists, with an index past the table, with static values
ClassConfigs ==
    { ClassConfig(FALSE, <<>>, <<>>, <<>>, <<>>, "none"),
      ClassConfig(FALSE, <<>>, <<>>, <<>>, <<>>, "empty"),
      ClassConfig(TRUE, <<3, 1, 5>>, <<2>>, <<2, 0, 1>>, <<1>>, "none"),
      ClassConfig(TRUE, <<1, 2>>, <<3, 1, 5>>, <<3>>, <<2, 0, 1>>, "empty"),
      ClassConfig(TRUE, <<2>>, <<0, 4>>, <<>>, <<0, 3>>, "none"),
      ClassConfig(TRUE, <<>>, <<>>, <<>>, <<>>, "none"),
      ClassConfig(TRUE, <<7, 5>>, <<1>>, <<1>>, <<>>, "none"),
      ClassConfig(TRUE, <<1>>, <<>>, <<0>>, <<1>>, "two") }

\* the images: every sequence of 1..MaxClasses class defs with the DEX magic
\* or another, whole; one image cut at every 16th byte, read into a buffer
\* with or without spare capacity; and a class with a direct method
\* without code and a virtual method with each of the bodies
Images ==
    { [magic |-> m, classes |-> cs, cut |-> -1, slack |-> 0] :
        m \in BOOLEAN, cs \in UNION {[1..n -> ClassConfigs] : n \in 1..MaxClasses} }
    \cup
    { [magic |-> TRUE,
       classes |-> <<ClassConfig(TRUE, <<3, 1, 5>>, <<2>>, <<2, 0, 1>>, <<1>>, "none")>>,
       cut |-> 16 * c, slack |-> s] :
        c \in 0..20, s \in {0, CapSlack} }
    \cup
    { [magic |-> TRUE,
       classes |-> <<WithCode(ClassConfig(TRUE, <<1>>, <<>>, <<0>>, <<1>>, "none"),
                              body)>>,
       cut |-> -1, slack |-> 0] :
        body \in Bodies }

-----------------------------------------------------------------------------
(* Spec: the loaders of DEX.                                               *)

\* &DEX{b: b}
NewDex ==
    [header |-> ZeroObj("Header"), Strings |-> <<>>, Types |-> <<>>,
     Prototypes |-> <<>>, Fields |-> <<>>, Methods |-> <<>>, Classes |-> <<>>]

\* the tables of dex that the closures of Parse read
DexTables(d) == [Strings |-> d.Strings, Fields |-> d.Fields, Methods |-> d.Methods]

\* what a loader leaves: dex, the error it returns, whether it panicked
LoadResult(d, err, panic) == [dex |-> d, err |-> err, panic |-> panic]

\* func (d *DEX) readHeader: _, err := Unpack(d.b, &d.header); return err
readHeader(d, file, registry) ==
    CHOOSE res \in {
        LoadResult([d EXCEPT !.header = u.env.obj], u.err, u.env.panic)
        : u \in {Unpack(file, "Header", "obj",
                        [Env(registry, file, DexTables(d), ZeroObj("ClassDefItem"))
                            EXCEPT !.obj = d.header])} } : TRUE

\* func str: length, offset := uleb128(b[0:]); return string(b[i:i+length]), i
str(bs) ==
    CHOOSE res \in {
        IF r.panic \/ ~CanSliceRange(bs, r.n, r.n + ToNat(r.value))
        THEN [s |-> <<>>, n |-> 0, panic |-> TRUE]
        ELSE [s |-> SliceRange(bs, r.n, r.n + ToNat(r.value)).bytes,
              n |-> r.n, panic |-> FALSE]
        : r \in {uleb128(bs)} } : TRUE

\* iteration i of the loop of readStrings, after the iterations that left
\* r; data is d.b[StringIdsOffset:]
readString(r, file, data, i) ==
    CASE r.panic -> r
      [] ~r.panic /\ ~CanSliceRange(data, 4 * i, 4 * i + 4) ->
           LoadResult(r.dex, "nil", TRUE)
      [] ~r.panic /\ CanSliceRange(data, 4 * i, 4 * i + 4)
           /\ ~CanSliceFrom(file, ToNat(LittleEndianUint32(
                                     SliceRange(data, 4 * i, 4 * i + 4)))) ->
           LoadResult(r.dex, "nil", TRUE)
      [] OTHER ->
           CHOOSE res \in {
               IF s.panic
               THEN LoadResult(r.dex, "nil", TRUE)
               ELSE LoadResult([r.dex EXCEPT !.Strings[i + 1] = s.s], "nil", FALSE)
               : s \in {str(SliceFrom(file, ToNat(LittleEndianUint32(
                                         SliceRange(data, 4 * i, 4 * i + 4)))))} }
             : TRUE

\* the iterations lo..hi of that loop, in order
RECURSIVE readStringsLoop(_, _, _, _, _)
readStringsLoop(r, file, data, lo, hi) ==
    CASE lo > hi -> r
      [] lo = hi -> readString(r, file, data, lo)
      [] OTHER ->
           CHOOSE res \in {
               readStringsLoop(r1, file, data, ((lo + hi) \div 2) + 1, hi)
               : r1 \in {readStringsLoop(r, file, data, lo, (lo + hi) \div 2)} }
             : TRUE

\* func (d *DEX) readStrings
readStrings(d, file, registry) ==
    CHOOSE res \in {
        IF ~CanSliceFrom(file, ToNat(d.header.StringIdsOffset))
        THEN LoadResult(made, "nil", TRUE)
        ELSE readStringsLoop(LoadResult(made, "nil", FALSE), file,
                             SliceFrom(file, ToNat(d.header.StringIdsOffset)),
                             0, ToNat(d.header.StringIdsSize) - 1)
        : made \in {[d EXCEPT !.Strings =
                       [k \in 1..ToNat(d.header.StringIdsSize) |-> <<>>]]} } : TRUE

\* a variant that takes every table for one of four-byte items
ItemAt_Packed(off, stride, i) == off + 4 * i

\* s := uint32(d.header.FieldsOffset) + uint32(0x8*i): where item i of a
\* table at off starts
ItemAt(off, stride, i) == off + stride * i

\* iteration i of the loop shared by readTypes, readPrototypes, readFields
\* and readMethods, after the iterations that left r: item i is unpacked
\* from d.b[off + stride*i:] and stored, an error of Unpack is returned at
\* once
readItem(r, file, registry, table, t, off, stride, i) ==
    CASE r.panic \/ r.err # "nil" -> r
      [] ~(r.panic \/ r.err # "nil") /\ ~CanSliceFrom(file, ItemAt(off, stride, i)) ->
           LoadResult(r.dex, "nil", TRUE)
      [] OTHER ->
           CHOOSE res \in {
               CASE u.env.panic -> LoadResult(r.dex, "nil", TRUE)
                 [] ~u.env.panic /\ u.err # "nil" -> LoadResult(r.dex, u.err, FALSE)
                 [] OTHER -> LoadResult([r.dex EXCEPT ![table][i + 1] = u.env.obj],
                                        "nil", FALSE)
               : u \in {Unpack(SliceFrom(file, ItemAt(off, stride, i)), t, "obj",
                               [Env(registry, file, DexTables(r.dex),
                                    ZeroObj("ClassDefItem"))
                                   EXCEPT !.obj = NewItem(t)])} } : TRUE

\* the iterations lo..hi of that loop, in order
RECURSIVE readItems(_, _, _, _, _, _, _, _, _)
readItems(r, file, registry, table, t, off, stride, lo, hi) ==
    CASE lo > hi -> r
      [] lo = hi -> readItem(r, file, registry, table, t, off, stride, lo)
      [] OTHER ->
           CHOOSE res \in {
               readItems(r1, file, registry, table, t, off, stride,
                         ((lo + hi) \div 2) + 1, hi)
               : r1 \in {readItems(r, file, registry, table, t, off, stride,
                                   lo, (lo + hi) \div 2)} } : TRUE

\* make([]T, size)
Make(t, size) == [k \in 1..size |-> ZeroObj(t)]

\* func (d *DEX) readTypes
readTypes(d, file, registry) ==
    readItems(LoadResult([d EXCEPT !.Types =
                             Make("TypeId", ToNat(d.header.TypeIdsSize))],
                         "nil", FALSE),
              file, registry, "Types", "TypeId",
              ToNat(d.header.TypeIdsOffset), 4, 0, ToNat(d.header.TypeIdsSize) - 1)

\* func (d *DEX) readPrototypes
readPrototypes(d, file, registry) ==
    readItems(LoadResult([d EXCEPT !.Prototypes =
                             Make("ProtoIdItem", ToNat(d.header.ProtosSize))],
                         "nil", FALSE),
              file, registry, "Prototypes", "ProtoIdItem",
              ToNat(d.header.ProtosOffset), 12, 0, ToNat(d.header.ProtosSize) - 1)

\* func (d *DEX) readFields
readFields(d, file, registry) ==
    readItems(LoadResult([d EXCEPT !.Fields =
                             Make("FieldIdItem", ToNat(d.header.FieldsSize))],
                         "nil", FALSE),
              file, registry, "Fields", "FieldIdItem",
              ToNat(d.header.FieldsOffset), 8, 0, ToNat(d.header.FieldsSize) - 1)

\* func (d *DEX) readMethods
readMethods(d, file, registry) ==
    readItems(LoadResult([d EXCEPT !.Methods =
                             Make("MethodIdItem", ToNat(d.header.MethodIdsSize))],
                         "nil", FALSE),
              file, registry, "Methods", "MethodIdItem",
              ToNat(d.header.MethodIdsOffset), 8, 0, ToNat(d.header.MethodIdsSize) - 1)

\* a variant that registers the closures of the first iteration and keeps
\* them for the iterations after it
RegisterClassPacks_Once(registry, i) ==
    IF "classdata" \in DOMAIN registry THEN registry
    ELSE RegisterPack(
           RegisterPack(
             RegisterPack(
               RegisterPack(
                 RegisterPack(
                   RegisterPack(registry, "classdata", Codec("classdata", i)),
                   "staticfields", Codec("staticfields", i)),
                 "instancefields", Codec("instancefields", i)),
               "directmethods", Codec("directmethods", i)),
             "virtualmethods", Codec("virtualmethods", i)),
           "staticvalues", Codec("staticvalues", i))

\* the six RegisterPack calls of iteration i of Parse's class loop
RegisterClassPacks(registry, i) ==
    RegisterPack(
      RegisterPack(
        RegisterPack(
          RegisterPack(
            RegisterPack(
              RegisterPack(registry, "classdata", Codec("classdata", i)),
              "staticfields", Codec("staticfields", i)),
            "instancefields", Codec("instancefields", i)),
          "directmethods", Codec("directmethods", i)),
        "virtualmethods", Codec("virtualmethods", i)),
      "staticvalues", Codec("staticvalues", i))

\* iteration i of Parse's class loop after its registrations: the class def
\* at b[ClassDefsOffset + 32*i:] is unpacked into class_def_item, the error
\* is assigned to err and not read, class_def_item is stored
ParseClassDef(d, file, registry, i) ==
    IF ~CanSliceFrom(file, ItemAt(ToNat(d.header.ClassDefsOffset), 32, i))
    THEN [dex |-> d, err |-> "nil", panic |-> TRUE,
          env |-> Env(registry, file, DexTables(d), NewItem("ClassDefItem"))]
    ELSE CHOOSE res \in {
             [dex |-> IF u.env.panic THEN d
                      ELSE [d EXCEPT !.Classes[i + 1] = u.env.cdi],
              err |-> u.err, panic |-> u.env.panic, env |-> u.env]
             : u \in {Unpack(SliceFrom(file, ItemAt(ToNat(d.header.ClassDefsOffset),
                                                    32, i)),
                             "ClassDefItem", "cdi",
                             Env(registry, file, DexTables(d),
                                 NewItem("ClassDefItem")))} } : TRUE

-----------------------------------------------------------------------------
(* Dump and Disassemble.  What they print is a sequence of lines; a line   *)
(* is a record naming the statement that printed it and the values it was  *)
(* formatted from.                                                         *)

\* a variant of the table whose entry for nop has Length -1 and whose other
\* entries have Length 1
instructions_NopInvalid(code) ==
    [ok |-> TRUE, Length |-> IF code = 0 THEN -1 ELSE 1]

\* var instructions map[byte]Instruction: the Length of the entry of an
\* opcode, ok as the map lookup yields it; the Name of an entry is printed
\* next to the opcode it belongs to and is not kept here
instructions(code) ==
    CASE code \in (36..38) \cup (43..44) \cup (68..81) -> [ok |-> TRUE, Length |-> -1]
      [] code = 0 -> [ok |-> TRUE, Length |-> 0]
      [] code \in {1, 4, 7} \cup (10..18) \cup (29..30) \cup {33} \cup (39..40)
                  \cup (123..143) \cup (176..207) -> [ok |-> TRUE, Length |-> 1]
      [] code = 41 -> [ok |-> TRUE, Length |-> 2]
      [] code \in {2, 5, 8, 19, 22, 26, 28} \cup (31..32) \cup (34..35)
                  \cup (45..61) \cup (82..109) \cup (144..175) \cup (208..226) ->
           [ok |-> TRUE, Length |-> 3]
      [] code \in {3, 6, 9, 42} -> [ok |-> TRUE, Length |-> 4]
      [] code \in (20..21) \cup {23, 27} \cup (110..114) \cup (116..120) ->
           [ok |-> TRUE, Length |-> 5]
      [] code \in 24..25 -> [ok |-> TRUE, Length |-> 9]
      [] OTHER -> [ok |-> FALSE, Length |-> 0]

\* a string looked up in a table, or the panic of an index out of range
Lookup(s, panic) == [s |-> s, panic |-> panic]

\* m.dex.Strings[idx] for a uint32 idx
StringAt(d, idx) ==
    IF idx[1] # 0 \/ idx[2] >= Len(d.Strings)
    THEN Lookup(<<>>, TRUE)
    ELSE Lookup(d.Strings[idx[2] + 1], FALSE)

\* func (t *TypeId) String: t.dex.Strings[t.DescriptorIdx]
TypeIdString(d, t) == StringAt(d, t.DescriptorIdx)

\* m.dex.Types[idx].String() for a uint32 idx
TypeAt(d, idx) ==
    IF idx[1] # 0 \/ idx[2] >= Len(d.Types)
    THEN Lookup(<<>>, TRUE)
    ELSE TypeIdString(d, d.Types[idx[2] + 1])

\* func (m *MethodIdItem) Name: m.dex.Strings[m.NameIdx]
MethodName(d, m) == StringAt(d, m.NameIdx)

\* m.dex.Methods[methodIdx].Name() for an int methodIdx
MethodNameAt(d, methodIdx) ==
    IF methodIdx >= Len(d.Methods)
    THEN Lookup(<<>>, TRUE)
    ELSE MethodName(d, d.Methods[methodIdx + 1])

\* what a branch of Disassemble appends to str: the format and its arguments
Part(fmt, args) == [fmt |-> fmt, args |-> args]
Parts(parts, panic) == [parts |-> parts, panic |-> panic]

\* binary.LittleEndian.Uint16(m.dex.b[offset+1 : offset+3])
CanU16After(file, offset) == CanSliceRange(file, offset + 1, offset + 3)
U16After(file, offset) == LittleEndianUint16(SliceRange(file, offset + 1, offset + 3))

\* the branches of Disassemble on instruction_code, offset being past the
\* opcode: what is appended to str, or the panic of a read out of range;
\* an opcode with no branch of its own appends nothing
Suffix(d, file, code, offset) ==
    CASE code \in {110, 111, 112, 113} \cup {114, 115, 116} ->
           IF ~CanU16After(file, offset)
           THEN Parts(<<>>, TRUE)
           ELSE CHOOSE res \in {
                    Parts(<<Part(" #%s", <<n.s>>)>>, n.panic)
                    : n \in {MethodNameAt(d, U16After(file, offset))} } : TRUE
      [] code = 34 ->
           IF ~CanIndex(file, offset) \/ ~CanU16After(file, offset)
           THEN Parts(<<>>, TRUE)
           ELSE CHOOSE res \in {
                    Parts(<<Part(" # %d=%s", <<At(file, offset), n.s>>)>>, n.panic)
                    : n \in {TypeAt(d, U32(U16After(file, offset)))} } : TRUE
      [] code \in {57, 10, 11, 12} ->
           IF ~CanIndex(file, offset)
           THEN Parts(<<>>, TRUE)
           ELSE Parts(<<Part(" # Register: %d", <<At(file, offset)>>)>>, FALSE)
      [] code \in {7, 18} ->
           IF ~CanIndex(file, offset)
           THEN Parts(<<>>, TRUE)
           ELSE Parts(<<Part(" # Register: %d = %d ",
                             <<At(file, offset) % 16, At(file, offset) \div 16>>)>>,
                      FALSE)
      [] code = 26 ->
           IF ~CanIndex(file, offset) \/ ~CanU16After(file, offset)
           THEN Parts(<<>>, TRUE)
           ELSE CHOOSE res \in {
                    Parts(<<Part(" # Register: %d", <<At(file, offset)>>),
                            Part(" # %d=%s", <<At(file, offset), n.s>>)>>, n.panic)
                    : n \in {StringAt(d, U32(U16After(file, offset)))} } : TRUE
      [] OTHER -> Parts(<<>>, FALSE)

\* the opcodes Disassemble has a branch for
Branched == {110, 111, 112, 113, 114, 115, 116, 34, 57, 7, 18, 10, 11, 12, 26}

\* the local variables of Disassemble and what it has printed: offset, the
\* lines, why the loop was left ("" while it runs), whether a read panicked
DisState(offset, lines, stop, panic) ==
    [offset |-> offset, lines |-> lines, stop |-> stop, panic |-> panic]

\* fmt.Println(str) for the instruction whose opcode was read at offset at,
\* printed once offset has moved on to next
InsnLine(at, next, code, parts) ==
    [kind |-> "insn", at |-> at, next |-> next, code |-> code, parts |-> parts]

\* one iteration of the loop of Disassemble: the opcode at offset is looked
\* up; without an entry the loop is left; with one, offset moves past the
\* opcode, the branch of the opcode runs, offset moves on by Length and the
\* line is printed; an entry of Length -1 and no branch prints
\* "Invalid opcode" and leaves the loop
DisStep(d, file, st) ==
    CASE ~CanIndex(file, st.offset) ->
           DisState(st.offset, st.lines, "panic", TRUE)
      [] CanIndex(file, st.offset) /\ ~instructions(At(file, st.offset)).ok ->
           DisState(st.offset, st.lines, "unknown", FALSE)
      [] CanIndex(file, st.offset) /\ instructions(At(file, st.offset)).ok
           /\ At(file, st.offset) \notin Branched
           /\ instructions(At(file, st.offset)).Length = -1 ->
           DisState(st.offset + 1,
                    Append(st.lines, [kind |-> "invalid", at |-> st.offset,
                                      code |-> At(file, st.offset)]),
                    "invalid", FALSE)
      [] OTHER ->
           CHOOSE res \in {
               IF sfx.panic
               THEN DisState(st.offset + 1, st.lines, "panic", TRUE)
               ELSE DisState(st.offset + 1 + instructions(At(file, st.offset)).Length,
                             Append(st.lines,
                                    InsnLine(st.offset,
                                             st.offset + 1
                                               + instructions(At(file, st.offset)).Length,
                                             At(file, st.offset), sfx.parts)),
                             "", FALSE)
               : sfx \in {Suffix(d, file, At(file, st.offset), st.offset + 1)} } : TRUE

\* for offset < int(m.CodeOffset)+16+(size*2) { ... }
RECURSIVE DisLoop(_, _, _, _)
DisLoop(d, file, end, st) ==
    CASE st.stop # "" -> st
      [] st.stop = "" /\ st.offset >= end -> [st EXCEPT !.stop = "end"]
      [] OTHER ->
           CHOOSE res \in { DisLoop(d, file, end, st1)
                            : st1 \in {DisStep(d, file, st)} } : TRUE

\* what a call of Disassemble did: the lines printed, the error returned,
\* whether it panicked; sizeAt, the offset the size was read at, end, the
\* bound of the loop, offset and stop, where and why the loop was left
DisResult(lines, panic, sizeAt, end, offset, stop) ==
    [lines |-> lines, err |-> "nil", panic |-> panic, m |-> <<>>,
     sizeAt |-> sizeAt, end |-> end, offset |-> offset, stop |-> stop]

\* a variant that keeps its cursor in the method it disassembles
Receiver_Cursor(m, offset) == [m EXCEPT !.CodeOffset = U32(offset)]

\* the receiver *m after Disassemble, whose cursor is the local variable
\* offset: no field of m or of m.dex is assigned
Receiver(m, offset) == m

\* func (m *EncodedMethod) Disassemble() error
Disassemble(d, file, m) ==
    LET codeOffset == ToNat(m.CodeOffset)
        head == << [kind |-> "stars"], [kind |-> "offset", value |-> codeOffset] >>
        size == ToNat(LittleEndianUint32(
                    SliceRange(file, codeOffset + 12, codeOffset + 16)))
    IN  IF ~CanSliceRange(file, codeOffset + 12, codeOffset + 16)
        THEN [DisResult(head, TRUE, codeOffset + 12, 0, codeOffset + 12, "panic")
                 EXCEPT !.m = m]
        ELSE CHOOSE res \in {
                 [DisResult(IF st.panic THEN st.lines
                            ELSE Append(st.lines, [kind |-> "stars"]),
                            st.panic, codeOffset + 12,
                            codeOffset + 16 + (size * 2), st.offset, st.stop)
                     EXCEPT !.m = Receiver(m, st.offset)]
                 : st \in { DisLoop(d, file, codeOffset + 16 + (size * 2),
                                DisState(codeOffset + 16,
                                         Append(head, [kind |-> "size", value |-> size]),
                                         "", FALSE)) } } : TRUE

\* bit k of the low 16 bits of af
Bit(af, k) == (af[2] \div Pow2(k)) % 2 = 1

\* func (af AccessFlags) String() string
AccessFlagsString(af) ==
    CASE ~Bit(af, 0) -> "public "
      [] Bit(af, 0) /\ Bit(af, 1) -> "private "
      [] Bit(af, 0) /\ ~Bit(af, 1) /\ Bit(af, 2) -> "protected "
      [] Bit(af, 0) /\ ~Bit(af, 1) /\ ~Bit(af, 2) /\ Bit(af, 3) -> "static "
      [] Bit(af, 0) /\ ~Bit(af, 1) /\ ~Bit(af, 2) /\ ~Bit(af, 3) /\ Bit(af, 4) ->
           "final "
      [] Bit(af, 0) /\ ~Bit(af, 1) /\ ~Bit(af, 2) /\ ~Bit(af, 3) /\ ~Bit(af, 4)
           /\ Bit(af, 5) -> "synchronized "
      [] Bit(af, 0) /\ ~Bit(af, 1) /\ ~Bit(af, 2) /\ ~Bit(af, 3) /\ ~Bit(af, 4)
           /\ ~Bit(af, 5) /\ af[1] % 2 = 1 -> "constructor "
      [] OTHER -> ""

\* what a statement of Dump printed: lines, the calls of Disassemble it made
\* with their results, whether it panicked
Printed(lines, dis, panic) == [lines |-> lines, dis |-> dis, panic |-> panic]

\* fmt.Printf("%d %s\n", i, t.String())
DumpType(d, i) ==
    CHOOSE res \in {
        Printed(IF n.panic THEN <<>> ELSE <<[kind |-> "type", i |-> i, s |-> n.s]>>,
                <<>>, n.panic)
        : n \in {TypeIdString(d, d.Types[i + 1])} } : TRUE

\* fmt.Println(m.String()) with func (m *ProtoIdItem) String
DumpProto(d, m) ==
    CHOOSE res \in {
        Printed(IF n.panic \/ t.panic THEN <<>>
                ELSE <<[kind |-> "proto", shorty |-> n.s, idx |-> m.ShortyIdx,
                        ret |-> t.s, params |-> m.ParametersOffset]>>,
                <<>>, n.panic \/ t.panic)
        : n \in {StringAt(d, m.ShortyIdx)}, t \in {TypeAt(d, m.ReturnTypeIdx)} } : TRUE

\* fmt.Println(c.String()) with func (m *ClassDefItem) String
DumpClass(d, c) ==
    CHOOSE res \in {
        Printed(IF n.panic THEN <<>>
                ELSE <<[kind |-> "class", flags |-> AccessFlagsString(c.AccessFlags),
                        source |-> n.s]>>,
                <<>>, n.panic)
        : n \in {StringAt(d, c.SourceFileIdx)} } : TRUE

\* fmt.Printf("%s %s %s %s=\n", f.AccessFlags.String(), f.Field.Type(),
\*            f.Field.Class(), f.Field.String())
DumpField(d, f) ==
    CHOOSE res \in {
        Printed(IF t.panic \/ c.panic \/ n.panic THEN <<>>
                ELSE <<[kind |-> "field", flags |-> AccessFlagsString(f.AccessFlags),
                        type |-> t.s, class |-> c.s, name |-> n.s]>>,
                <<>>, t.panic \/ c.panic \/ n.panic)
        : t \in {TypeAt(d, f.Field.TypeIdx)}, c \in {TypeAt(d, f.Field.ClassIdx)},
          n \in {StringAt(d, f.Field.NameIdx)} } : TRUE

\* func (m *MethodIdItem) Proto: m.dex.Prototypes[m.ProtoIdx].String()
MethodProto(d, m) ==
    IF m.ProtoIdx[1] # 0 \/ m.ProtoIdx[2] >= Len(d.Prototypes)
    THEN Printed(<<>>, <<>>, TRUE)
    ELSE DumpProto(d, d.Prototypes[m.ProtoIdx[2] + 1])

\* fmt.Printf("%s()\n", m.Method.String()); m.Disassemble()
\* for element j of list of class k
DumpMethod(d, file, k, list, j) ==
    LET m == d.Classes[k].ClassData[list][j]
    IN  CHOOSE res \in {
            IF c.panic \/ p.panic \/ n.panic
            THEN Printed(<<>>, <<>>, TRUE)
            ELSE CHOOSE r2 \in {
                     Printed(<<[kind |-> "method", class |-> c.s, proto |-> p.lines,
                                name |-> n.s]>> \o r.lines,
                             <<[class |-> k, list |-> list, j |-> j, res |-> r]>>,
                             r.panic)
                     : r \in {Disassemble(d, file, m)} } : TRUE
            : c \in {TypeAt(d, m.Method.ClassIdx)}, p \in {MethodProto(d, m.Method)},
              n \in {MethodName(d, m.Method)} } : TRUE

\* a statement of Dump: its kind, and the class, list and element it is for
Job(kind, k, list, j) == [kind |-> kind, k |-> k, list |-> list, j |-> j]

\* the statements Dump runs for the elements of list of class k, in order
ListJobs(d, kind, k, list) ==
    [j \in 1..Len(d.Classes[k].ClassData[list]) |-> Job(kind, k, list, j)]

\* the statements Dump runs for class k: the class, its instance fields,
\* its static fields, its direct methods, its virtual methods
ClassJobs(d, k) ==
    <<Job("class", k, "", 0)>>
      \o ListJobs(d, "field", k, "InstanceFields")
      \o ListJobs(d, "field", k, "StaticFields")
      \o ListJobs(d, "method", k, "DirectMethods")
      \o ListJobs(d, "method", k, "VirtualMethods")

\* the statements Dump runs, in order
DumpJobs(d) ==
    <<Job("Types:", 0, "", 0)>>
      \o [i \in 1..Len(d.Types) |-> Job("type", i, "", 0)]
      \o <<Job("Prototypes:", 0, "", 0)>>
      \o [i \in 1..Len(d.Prototypes) |-> Job("proto", i, "", 0)]
      \o <<Job("Classes:", 0, "", 0)>>
      \o Flatten([k \in 1..Len(d.Classes) |-> ClassJobs(d, k)])

\* one statement of Dump
RunJob(d, file, job) ==
    CASE job.kind \in {"Types:", "Prototypes:", "Classes:"} ->
           Printed(<<[kind |-> "title", s |-> job.kind]>>, <<>>, FALSE)
      [] job.kind = "type" -> DumpType(d, job.k - 1)
      [] job.kind = "proto" -> DumpProto(d, d.Prototypes[job.k])
      [] job.kind = "class" -> DumpClass(d, d.Classes[job.k])
      [] job.kind = "field" ->
           DumpField(d, d.Classes[job.k].ClassData[job.list][job.j])
      [] job.kind = "method" -> DumpMethod(d, file, job.k, job.list, job.j)

\* the statements lo..hi of Dump, in order, after those that left acc; a
\* panic ends Dump
RECURSIVE DumpRange(_, _, _, _, _, _)
DumpRange(d, file, jobs, lo, hi, acc) ==
    CASE acc.panic \/ lo > hi -> acc
      [] ~acc.panic /\ lo = hi ->
           CHOOSE res \in {
               Printed(acc.lines \o r.lines, acc.dis \o r.dis, r.panic)
               : r \in {RunJob(d, file, jobs[lo])} } : TRUE
      [] OTHER ->
           CHOOSE res \in {
               DumpRange(d, file, jobs, ((lo + hi) \div 2) + 1, hi, acc1)
               : acc1 \in {DumpRange(d, file, jobs, lo, (lo + hi) \div 2, acc)} }
             : TRUE

\* func (d *DEX) Dump()
Dump(d, file) ==
    DumpRange(d, file, DumpJobs(d), 1, Len(DumpJobs(d)), Printed(<<>>, <<>>, FALSE))

-----------------------------------------------------------------------------
(* Spec: Open and Parse, one action per step of Parse.                     *)
(* pc is the statement Open has reached, dex the DEX it allocated, ci the  *)
(* i of the class loop, packs the package's registry, parseErr what Parse  *)
(* returned, openRes what Open returned; trace lists what ran so far.      *)

\* a variant that runs the class loop before readFields
ParseSeq_ClassesEarly ==
    << "readHeader", "readStrings", "readTypes", "readPrototypes",
       "classes", "readFields", "readMethods" >>

\* the order in which Parse calls the loaders; the class loop is last
ParseSeq ==
    << "readHeader", "readStrings", "readTypes", "readPrototypes",
       "readFields", "readMethods", "classes" >>

\* where Parse goes when a stage is done: to the next stage, or to return nil
After(stage) ==
    Only({ IF k < Len(ParseSeq) THEN ParseSeq[k + 1] ELSE "return"
         : k \in {CHOOSE j \in 1..Len(ParseSeq) : ParseSeq[j] = stage} })

\* no codec call noted
NoLog == [calls |-> <<>>, side |-> <<>>, errs |-> <<>>]

\* what a step of Parse did: the loader or class def, the error and panic it
\* ended with, and what the codecs it ran noted in env
Event(stage, class, err, panic, env) ==
    [stage |-> stage, class |-> class, err |-> err, panic |-> panic,
     calls |-> env.calls, side |-> env.side, errs |-> env.errs]

Init ==
    /\ img \in Images
    /\ b = <<>> /\ bcap = 0 /\ pc = "open"
    /\ dex = NewDex /\ ci = 0 /\ packs = BuiltinPacks
    /\ parseErr = "none" /\ openRes = "none" /\ trace = <<>>
    /\ cin = <<>> /\ cpc = "idle" /\ cop = "none" /\ cres = NoResult
    /\ out = NoCall /\ ncalls = 0 /\ par = NoPair

\* os.Open fails: Open returns (nil, err)
OpenFails ==
    /\ pc = "open"
    /\ openRes' = [dex |-> "nil", err |-> "open"]
    /\ pc' = "returned"
    /\ UNCHANGED <<img, b, bcap, dex, ci, packs, parseErr, trace, cvars, dvars, par>>

\* ioutil.ReadAll fails: Open returns (nil, err)
ReadAllFails ==
    /\ pc = "open"
    /\ openRes' = [dex |-> "nil", err |-> "read"]
    /\ pc' = "returned"
    /\ UNCHANGED <<img, b, bcap, dex, ci, packs, parseErr, trace, cvars, dvars, par>>

\* the file is read: dex := &DEX{b: b}; dex.Parse() is entered
OpenReads ==
    /\ pc = "open"
    /\ b' = FileBytes(img)
    /\ bcap' = Len(FileBytes(img)) + img.slack
    /\ dex' = NewDex
    /\ pc' = ParseSeq[1]
    /\ UNCHANGED <<img, ci, packs, parseErr, openRes, trace, cvars, dvars, par>>

\* if err := dex.readX(); err != nil { return err }
Loader(stage, r) ==
    /\ pc = stage
    /\ dex' = r.dex
    /\ trace' = Append(trace, Event(stage, -1, r.err, r.panic, NoLog))
    /\ IF r.panic
       THEN pc' = "panic" /\ UNCHANGED parseErr
       ELSE IF r.err # "nil"
            THEN pc' = "parsed" /\ parseErr' = r.err
            ELSE pc' = After(stage) /\ UNCHANGED parseErr
    /\ UNCHANGED <<img, b, bcap, ci, packs, openRes, cvars, dvars, par>>

ReadHeader == \E r \in {readHeader(dex, Slice(b, bcap), packs)} : Loader("readHeader", r)
ReadStrings == \E r \in {readStrings(dex, Slice(b, bcap), packs)} : Loader("readStrings", r)
ReadTypes == \E r \in {readTypes(dex, Slice(b, bcap), packs)} : Loader("readTypes", r)
ReadPrototypes ==
    \E r \in {readPrototypes(dex, Slice(b, bcap), packs)} : Loader("readPrototypes", r)
ReadFields == \E r \in {readFields(dex, Slice(b, bcap), packs)} : Loader("readFields", r)
ReadMethods == \E r \in {readMethods(dex, Slice(b, bcap), packs)} : Loader("readMethods", r)

\* dex.Classes = make([]ClassDefItem, header.ClassDefsSize); i := 0
MakeClasses ==
    /\ pc = "classes"
    /\ dex' = [dex EXCEPT !.Classes =
                  Make("ClassDefItem", ToNat(dex.header.ClassDefsSize))]
    /\ ci' = 0
    /\ pc' = "classLoop"
    /\ UNCHANGED <<img, b, bcap, packs, parseErr, openRes, trace, cvars, dvars, par>>

\* one iteration of the class loop
ParseClass ==
    /\ pc = "classLoop"
    /\ ci < ToNat(dex.header.ClassDefsSize)
    /\ packs' = RegisterClassPacks(packs, ci)
    /\ \E r \in {ParseClassDef(dex, Slice(b, bcap), RegisterClassPacks(packs, ci), ci)} :
         /\ dex' = r.dex
         /\ trace' = Append(trace, Event("class", ci, r.err, r.panic, r.env))
         /\ IF r.panic
            THEN pc' = "panic" /\ ci' = ci
            ELSE pc' = pc /\ ci' = ci + 1
    /\ UNCHANGED <<img, b, bcap, parseErr, openRes, cvars, dvars, par>>

\* i < int(header.ClassDefsSize) is false: the loop is left
ClassesDone ==
    /\ pc = "classLoop"
    /\ ci >= ToNat(dex.header.ClassDefsSize)
    /\ pc' = After("classes")
    /\ UNCHANGED <<img, b, bcap, dex, ci, packs, parseErr, openRes, trace, cvars, dvars, par>>

\* return nil
ParseReturn ==
    /\ pc = "return"
    /\ parseErr' = "nil"
    /\ pc' = "parsed"
    /\ UNCHANGED <<img, b, bcap, dex, ci, packs, openRes, trace, cvars, dvars, par>>

\* Open drops what dex.Parse() returned: return dex, nil
OpenReturn ==
    /\ pc = "parsed"
    /\ openRes' = [dex |-> "dex", err |-> "nil"]
    /\ pc' = "returned"
    /\ UNCHANGED <<img, b, bcap, dex, ci, packs, parseErr, trace, cvars, dvars, par>>

\* the caller of Open, holding the DEX it returned, calls dex.Dump(); Dump
\* ranges over copies of the tables' elements and assigns to none of them
CallDump ==
    /\ pc = "returned" /\ openRes.dex = "dex"
    /\ ncalls < MaxCalls
    /\ \E r \in {Dump(dex, Slice(b, bcap))} :
         /\ out' = [call |-> "Dump", class |-> 0, list |-> "", j |-> 0, res |-> r]
         /\ pc' = IF r.panic THEN "panic" ELSE pc
    /\ ncalls' = ncalls + 1
    /\ UNCHANGED <<img, b, bcap, dex, ci, packs, parseErr, openRes, trace, cvars, par>>

\* the caller calls Disassemble on element j of a method list of class k:
\* the element is left as Disassemble leaves its receiver
CallDisassemble ==
    /\ pc = "returned" /\ openRes.dex = "dex"
    /\ ncalls < MaxCalls
    /\ \E k \in 1..Len(dex.Classes), list \in {"DirectMethods", "VirtualMethods"} :
         \E j \in 1..Len(dex.Classes[k].ClassData[list]) :
           \E r \in {Disassemble(dex, Slice(b, bcap),
                                 dex.Classes[k].ClassData[list][j])} :
             /\ out' = [call |-> "Disassemble", class |-> k, list |-> list,
                        j |-> j, res |-> r]
             /\ dex' = [dex EXCEPT !.Classes[k].ClassData[list][j] = r.m]
             /\ pc' = IF r.panic THEN "panic" ELSE pc
    /\ ncalls' = ncalls + 1
    /\ UNCHANGED <<img, b, bcap, ci, packs, parseErr, openRes, trace, cvars, par>>

Next ==
    \/ OpenFails \/ ReadAllFails \/ OpenReads
    \/ ReadHeader \/ ReadStrings \/ ReadTypes \/ ReadPrototypes
    \/ ReadFields \/ ReadMethods
    \/ MakeClasses \/ ParseClass \/ ClassesDone
    \/ ParseReturn \/ OpenReturn
    \/ CallDump \/ CallDisassemble

Spec == Init /\ [][Next]_vars

-----------------------------------------------------------------------------
(* SpecPair: two calls of Parse on two DEX values, run as goroutines.      *)
(* packs is the one registry of the package; each call has its own b, dex, *)
(* loop counter i and class_def_item.  The calls interleave at the         *)
(* statements of the class loop that touch packs.                          *)

Callers == {1, 2}
Other(c) == 3 - c

\* the files the two calls parse: one class without class data, one class
\* with class data, another one, and two classes
PairImages ==
    { [magic |-> TRUE, classes |-> cs, cut |-> -1, slack |-> 0] :
        cs \in { <<ClassConfig(FALSE, <<>>, <<>>, <<>>, <<>>, "none")>>,
                 <<ClassConfig(TRUE, <<3, 1, 5>>, <<2>>, <<2, 0, 1>>, <<1>>, "none")>>,
                 <<ClassConfig(TRUE, <<2>>, <<0, 4>>, <<>>, <<0, 3>>, "none")>>,
                 <<ClassConfig(TRUE, <<3, 1, 5>>, <<2>>, <<2, 0, 1>>, <<1>>, "none"),
                   ClassConfig(FALSE, <<>>, <<>>, <<>>, <<>>, "none")>> } }

\* a call of Parse before its first statement: file is dex.b, cdi the
\* class_def_item of the current iteration, log the codecs its last Unpack
\* of a class def invoked (ghost)
CallState(p) ==
    [img |-> p, file |-> Slice(FileBytes(p), Len(FileBytes(p))), dex |-> NewDex,
     i |-> 0, cdi |-> NewItem("ClassDefItem"), pc |-> "start", log |-> <<>>]

\* if err := dex.readX(); err != nil { return err }: the next loader runs
\* when the one before returned nil
LoadThen(prev, readX, file, registry) ==
    CHOOSE res \in {
        CASE r.panic \/ r.err # "nil" -> r
          [] ~(r.panic \/ r.err # "nil") /\ readX = "readStrings" ->
               readStrings(r.dex, file, registry)
          [] ~(r.panic \/ r.err # "nil") /\ readX = "readTypes" ->
               readTypes(r.dex, file, registry)
          [] ~(r.panic \/ r.err # "nil") /\ readX = "readPrototypes" ->
               readPrototypes(r.dex, file, registry)
          [] ~(r.panic \/ r.err # "nil") /\ readX = "readFields" ->
               readFields(r.dex, file, registry)
          [] ~(r.panic \/ r.err # "nil") /\ readX = "readMethods" ->
               readMethods(r.dex, file, registry)
        : r \in {prev} } : TRUE

\* Parse from readHeader to dex.Classes = make([]ClassDefItem, ...)
LoadTables(file, registry) ==
    CHOOSE res \in {
        IF r.panic \/ r.err # "nil" THEN r
        ELSE LoadResult([r.dex EXCEPT !.Classes =
                            Make("ClassDefItem", ToNat(r.dex.header.ClassDefsSize))],
                        "nil", FALSE)
        : r \in { LoadThen(LoadThen(LoadThen(LoadThen(LoadThen(
                      readHeader(NewDex, file, registry),
                      "readStrings", file, registry),
                      "readTypes", file, registry),
                      "readPrototypes", file, registry),
                      "readFields", file, registry),
                      "readMethods", file, registry) } } : TRUE

\* the fields of ClassDefItem that Unpack sets through val, the struct it
\* was called with; the closures set the other two through the
\* class_def_item they captured
ValFields ==
    { ClassDefItemDesc[k].name : k \in { j \in 1..Len(ClassDefItemDesc) :
                                           ClassDefItemDesc[j].kind = "uint" } }

\* _, err = Unpack(b[s:], &class_def_item) by a call whose b is file and
\* whose class_def_item is mine, under a registry whose closures captured
\* b, dex and class_def_item of the call o: val is the caller's struct,
\* the closures read b and dex of o and write the class_def_item of o
UnpackClassDef(file, s, registry, mine, o, own) ==
    CHOOSE res \in {
        [panic |-> u.env.panic, err |-> u.err, calls |-> u.env.calls,
         mine |-> IF own THEN u.env.cdi
                  ELSE [n \in DOMAIN mine |->
                          IF n \in ValFields THEN u.env.cdi[n] ELSE mine[n]],
         theirs |-> IF own THEN u.env.cdi
                    ELSE [n \in DOMAIN o.cdi |->
                            IF n \in ValFields THEN o.cdi[n] ELSE u.env.cdi[n]]]
        : u \in { Unpack(SliceFrom(file, s), "ClassDefItem", "cdi",
                         Env(registry, o.file, DexTables(o.dex),
                             IF own THEN mine
                             ELSE [n \in DOMAIN mine |->
                                     IF n \in ValFields THEN mine[n] ELSE o.cdi[n]])) }
      } : TRUE

\* a panic or a fatal error of the runtime ends the process
Running == \A c \in Callers : par[c].pc \notin {"panic", "fatal"}

InitPair ==
    /\ ParseIdle
    /\ cin = <<>> /\ cpc = "idle" /\ cop = "none" /\ cres = NoResult
    /\ par \in [Callers -> {CallState(p) : p \in PairImages}]

\* the loaders of call c and the make of dex.Classes; they read packs
PairLoad(c) ==
    /\ Running /\ par[c].pc = "start"
    /\ \E r \in {LoadTables(par[c].file, packs)} :
         par' = [par EXCEPT ![c].dex = r.dex,
                            ![c].pc = IF r.panic THEN "panic"
                                      ELSE IF r.err # "nil" THEN "done" ELSE "loop"]
    /\ UNCHANGED <<pvars, cvars, dvars>>

\* class_def_item := ClassDefItem{dex: dex} and the six RegisterPack calls
\* of an iteration of call c
PairRegister(c) ==
    /\ Running /\ par[c].pc = "loop"
    /\ par[c].i < ToNat(par[c].dex.header.ClassDefsSize)
    /\ packs' = RegisterClassPacks(packs, <<c, par[c].i>>)
    /\ par' = [par EXCEPT ![c].cdi = NewItem("ClassDefItem"), ![c].pc = "unpack"]
    /\ UNCHANGED <<img, b, bcap, pc, dex, ci, parseErr, openRes, trace, cvars, dvars>>

\* _, err = Unpack(b[s:], &class_def_item); dex.Classes[i] = class_def_item
\* of call c, with the closures packs holds now
PairUnpack(c) ==
    /\ Running /\ par[c].pc = "unpack"
    /\ LET me == par[c]
           s == ItemAt(ToNat(me.dex.header.ClassDefsOffset), 32, me.i)
           o == packs["classdata"].owner[1]
       IN  IF ~CanSliceFrom(me.file, s)
           THEN par' = [par EXCEPT ![c].pc = "panic"]
           ELSE \E u \in {UnpackClassDef(me.file, s, packs, me.cdi, par[o], o = c)} :
                  par' = [k \in Callers |->
                            IF k = c
                            THEN [me EXCEPT
                                    !.cdi = u.mine,
                                    !.log = u.calls,
                                    !.dex = IF u.panic THEN @
                                            ELSE [@ EXCEPT !.Classes[me.i + 1] = u.mine],
                                    !.i = IF u.panic THEN @ ELSE @ + 1,
                                    !.pc = IF u.panic THEN "panic" ELSE "loop"]
                            ELSE IF k = o THEN [par[k] EXCEPT !.cdi = u.theirs]
                            ELSE par[k]]
    /\ UNCHANGED <<pvars, cvars, dvars>>

\* i < int(header.ClassDefsSize) is false: return nil
PairReturn(c) ==
    /\ Running /\ par[c].pc = "loop"
    /\ par[c].i >= ToNat(par[c].dex.header.ClassDefsSize)
    /\ par' = [par EXCEPT ![c].pc = "done"]
    /\ UNCHANGED <<pvars, cvars, dvars>>

\* packs[name] = fn by call c while the other call reads or writes the
\* map: a data race, for which the runtime may end the process with
\* "fatal error: concurrent map writes" (or "map read and map write")
PairFault(c) ==
    /\ Running /\ par[c].pc = "loop"
    /\ par[c].i < ToNat(par[c].dex.header.ClassDefsSize)
    /\ par[Other(c)].pc \in {"start", "unpack"}
         \/ /\ par[Other(c)].pc = "loop"
            /\ par[Other(c)].i < ToNat(par[Other(c)].dex.header.ClassDefsSize)
    /\ par' = [k \in Callers |-> [par[k] EXCEPT !.pc = "fatal"]]
    /\ UNCHANGED <<pvars, cvars, dvars>>

NextPair ==
    \E c \in Callers :
        \/ PairLoad(c) \/ PairRegister(c) \/ PairUnpack(c)
        \/ PairReturn(c) \/ PairFault(c)

SpecPair == InitPair /\ [][NextPair]_vars

\* Parse on file by one call that nothing runs beside
RECURSIVE ParseClasses(_, _, _)
ParseClasses(d, file, i) ==
    IF i >= ToNat(d.header.ClassDefsSize) THEN d
    ELSE CHOOSE res \in {
             IF r.panic THEN r.dex ELSE ParseClasses(r.dex, file, i + 1)
             : r \in {ParseClassDef(d, file, RegisterClassPacks(BuiltinPacks, i), i)}
           } : TRUE

ParseAlone(file) ==
    CHOOSE res \in {
        IF r.panic \/ r.err # "nil" THEN r.dex ELSE ParseClasses(r.dex, file, 0)
        : r \in {LoadTables(file, BuiltinPacks)} } : TRUE

-----------------------------------------------------------------------------
(* Claims about the ULEB128 decoders (SpecCodec).                          *)

UlebCalled == cpc = "done" /\ cop \in {"uleb128", "unpackUleb128"}

\* the position of the first byte of cin without the continuation bit, or
\* Len(cin) when every byte has it
RECURSIVE FirstClear(_, _)
FirstClear(data, k) ==
    IF k >= Len(data) \/ data[k + 1] < 128 THEN k ELSE FirstClear(data, k + 1)

\* sum over i < k of (b_i & 0x7F) * 128^i, a natural below 2^28 for k <= 4
RECURSIVE LowSum(_, _)
LowSum(data, k) ==
    IF k = 0 THEN 0 ELSE LowSum(data, k - 1) + (data[k] % 128) * Pow2(7 * (k - 1))

\* the uint32 the claim names for an input whose first clear byte is at
\* k <= 4: below k = 4 every term fits 28 bits; at k = 4 the last byte's
\* bits 4..6 fall off the uint32
Expected(data, k) ==
    IF k < 4
    THEN U32(LowSum(data, k) + data[k + 1] * Pow2(7 * k))
    ELSE << (LowSum(data, 4) \div Limb) + (data[5] % 16) * 4096,
            LowSum(data, 4) % Limb >>

\* C1: for an input whose first byte with a clear top bit is at position
\* k <= 4, uleb128 and unpackUleb128 return the uint32 sum over i < k of
\* (b_i & 0x7F) << 7i plus b_k << 7k and consume k + 1 bytes; the golden
\* inputs decode to 0, 1, 127, 16256 and 624485.
C1_UlebValue ==
    UlebCalled =>
      /\ FirstClear(cin, 0) < Len(cin) /\ FirstClear(cin, 0) <= 4 =>
           /\ ~cres.panic
           /\ cres.value = Expected(cin, FirstClear(cin, 0))
           /\ cres.n = FirstClear(cin, 0) + 1
      /\ cin = <<0>> => cres.value = U32(0)
      /\ cin = <<1>> => cres.value = U32(1)
      /\ cin = <<127>> => cres.value = U32(127)
      /\ cin = <<128, 127>> => cres.value = U32(16256)
      /\ cin = <<229, 142, 38>> => cres.value = U32(624485)

C1_Witness ==
    /\ UlebCalled /\ cop = "unpackUleb128"
    /\ cin = <<229, 142, 38>> /\ cres.value = U32(624485) /\ cres.n = 3

\* C2: for every uint32 v of RoundTripValues (up to 2^32 - 1), uleb128
\* applied to the canonical encoding of v returns v, and a byte count equal
\* to the encoding's length.
C2_RoundTrip ==
    cpc = "done" /\ cop = "uleb128" =>
      \A v \in RoundTripValues :
        cin = EncodeUleb(v) =>
          ~cres.panic /\ cres.value = v /\ cres.n = Len(EncodeUleb(v))

C2_Witness ==
    /\ cpc = "done" /\ cop = "uleb128"
    /\ cin = EncodeUleb(<<65535, 65535>>) /\ Len(cin) = 5
    /\ cres.value = <<65535, 65535>> /\ cres.n = 5

\* C3: on an input that starts with five bytes that all carry the
\* continuation bit, the decoder fails with EBadULEB, consumes at most five
\* bytes and reads no sixth byte.
C3_OverlongRejected ==
    UlebCalled /\ Len(cin) >= 5 /\ (\A i \in 1..5 : cin[i] >= 128) =>
      /\ ~cres.panic
      /\ cres.err = "EBadULEB"
      /\ cres.n <= 5
      /\ cres.read <= 5

-----------------------------------------------------------------------------
(* Claims about Unpack (SpecCodec).                                        *)

\* C9: if a codec invoked by Unpack returns an error, Unpack returns that
\* error and invokes no codec for a later field.
C9_CodecErrorAborts ==
    cpc = "done" /\ cop = "Unpack" /\ ~cres.panic =>
      \A k \in 1..Len(cres.errs) :
        /\ cres.err = cres.errs[k].err
        /\ cres.errs[k].at = Len(cres.calls)

-----------------------------------------------------------------------------
(* Claims about Open and Parse (Spec).                                     *)

\* the class defs Parse has unpacked so far without panicking, in a file
\* that was read whole
Decoded ==
    {k \in 1..Len(trace) :
        trace[k].stage = "class" /\ ~trace[k].panic /\ img.cut < 0}

\* what the image says about the class def of trace entry k
ConfigOf(k) == img.classes[trace[k].class + 1]

\* what Parse stored for the class def of trace entry k
ClassOf(k) == dex.Classes[trace[k].class + 1]

\* field id i and method id i as the image holds them
FieldRecord(i) ==
    [dex |-> "dex", ClassIdx |-> U32(ImageField(i).class),
     TypeIdx |-> U32(ImageField(i).type), NameIdx |-> U32(ImageField(i).name)]
MethodRecord(i) ==
    [dex |-> "dex", ClassIdx |-> U32(ImageMethod(i).class),
     ProtoIdx |-> U32(ImageMethod(i).proto), NameIdx |-> U32(ImageMethod(i).name)]

\* the sum of the first k diffs
PrefixSum(diffs, k) ==
    LET sum[j \in 0..k] == IF j = 0 THEN 0 ELSE sum[j - 1] + diffs[j]
    IN  sum[k]

ListTags == {"staticfields", "instancefields", "directmethods", "virtualmethods"}

\* C4: once Parse has read the header of an input whose first eight bytes
\* are not the DEX magic, it has returned EBadMagic and no table is loaded.
C4_BadMagicRejected ==
    ~img.magic /\ Len(trace) >= 1 =>
        /\ pc \in {"parsed", "returned"}
        /\ parseErr = "EBadMagic"
        /\ dex.Strings = <<>> /\ dex.Types = <<>> /\ dex.Prototypes = <<>>
        /\ dex.Fields = <<>> /\ dex.Methods = <<>> /\ dex.Classes = <<>>

\* C5: Parse runs the loaders in the order Header, Strings, Types,
\* Prototypes, Fields, Methods, then the class defs in index order; a step
\* runs only after the one before it has completed without error; and when a
\* class def is decoded the Fields and Methods tables hold every item the
\* header counts.
C5_DependencyOrder ==
    \A k \in 1..Len(trace) :
        /\ k <= 6 =>
             trace[k].stage = << "readHeader", "readStrings", "readTypes",
                                 "readPrototypes", "readFields", "readMethods" >>[k]
        /\ k > 6 => trace[k].stage = "class" /\ trace[k].class = k - 7
        /\ k > 1 => ~trace[k - 1].panic /\ trace[k - 1].err = "nil"
        /\ trace[k].stage = "class" =>
             /\ Len(dex.Fields) = ToNat(dex.header.FieldsSize)
             /\ Len(dex.Methods) = ToNat(dex.header.MethodIdsSize)
             /\ \A i \in 1..Len(dex.Fields) : dex.Fields[i].dex = "dex"
             /\ \A i \in 1..Len(dex.Methods) : dex.Methods[i].dex = "dex"

\* a whole file with two class defs has been parsed and Open has returned
C5_Witness ==
    /\ pc = "returned" /\ openRes = [dex |-> "dex", err |-> "nil"]
    /\ Len(trace) = 8 /\ trace[8].stage = "class" /\ trace[8].class = 1
    /\ Len(dex.Fields) = ImageFields /\ Len(ClassOf(8).ClassData.StaticFields) = 2

\* C6: in each of the four lists of a decoded class def, element j is bound
\* to the table entry whose index is the sum of the first j diffs of that
\* list; diffs [3, 1, 5] give Fields[3], Fields[4], Fields[9] and diffs
\* [2, 0, 1] give Methods[2], Methods[2], Methods[3].
C6_DifferentialIndex ==
    \A k \in Decoded :
        /\ ConfigOf(k).data =>
             /\ \A j \in 1..Len(ConfigOf(k).sf) :
                  ClassOf(k).ClassData.StaticFields[j].Field
                    = FieldRecord(PrefixSum(ConfigOf(k).sf, j))
             /\ \A j \in 1..Len(ConfigOf(k).if) :
                  ClassOf(k).ClassData.InstanceFields[j].Field
                    = FieldRecord(PrefixSum(ConfigOf(k).if, j))
             /\ \A j \in 1..Len(ConfigOf(k).dm) :
                  ClassOf(k).ClassData.DirectMethods[j].Method
                    = MethodRecord(PrefixSum(ConfigOf(k).dm, j))
             /\ \A j \in 1..Len(ConfigOf(k).vm) :
                  ClassOf(k).ClassData.VirtualMethods[j].Method
                    = MethodRecord(PrefixSum(ConfigOf(k).vm, j))
        /\ ConfigOf(k).data /\ ConfigOf(k).sf = <<3, 1, 5>> =>
             /\ ClassOf(k).ClassData.StaticFields[1].Field = dex.Fields[3 + 1]
             /\ ClassOf(k).ClassData.StaticFields[2].Field = dex.Fields[4 + 1]
             /\ ClassOf(k).ClassData.StaticFields[3].Field = dex.Fields[9 + 1]
        /\ ConfigOf(k).data /\ ConfigOf(k).dm = <<2, 0, 1>> =>
             /\ ClassOf(k).ClassData.DirectMethods[1].Method = dex.Methods[2 + 1]
             /\ ClassOf(k).ClassData.DirectMethods[2].Method = dex.Methods[2 + 1]
             /\ ClassOf(k).ClassData.DirectMethods[3].Method = dex.Methods[3 + 1]

\* a class def with field diffs [3, 1, 5] and method diffs [2, 0, 1] is decoded
C6_Witness ==
    \E k \in Decoded :
        /\ ConfigOf(k).sf = <<3, 1, 5>> /\ ConfigOf(k).dm = <<2, 0, 1>>
        /\ Len(ClassOf(k).ClassData.StaticFields) = 3
        /\ ClassOf(k).ClassData.StaticFields[3].Field = FieldRecord(9)
        /\ ClassOf(k).ClassData.StaticFields[3].FieldIdxDiff = U32(5)
        /\ ClassOf(k).ClassData.DirectMethods[3].Method = MethodRecord(3)

\* C7: in a decoded class def the first element of each of the four lists
\* is bound to the table entry whose index is that element's own diff,
\* whatever the lists before it in the same class, or the lists of the
\* classes before it, held.
C7_IndexReset ==
    \A k \in Decoded :
        ConfigOf(k).data =>
            /\ Len(ConfigOf(k).sf) >= 1 =>
                 ClassOf(k).ClassData.StaticFields[1].Field
                   = FieldRecord(ConfigOf(k).sf[1])
            /\ Len(ConfigOf(k).if) >= 1 =>
                 ClassOf(k).ClassData.InstanceFields[1].Field
                   = FieldRecord(ConfigOf(k).if[1])
            /\ Len(ConfigOf(k).dm) >= 1 =>
                 ClassOf(k).ClassData.DirectMethods[1].Method
                   = MethodRecord(ConfigOf(k).dm[1])
            /\ Len(ConfigOf(k).vm) >= 1 =>
                 ClassOf(k).ClassData.VirtualMethods[1].Method
                   = MethodRecord(ConfigOf(k).vm[1])

\* the second class def of a file has static fields ending at index 2 and
\* instance fields starting at index 0, after a first class def whose lists
\* ended at other indices
C7_Witness ==
    \E k \in Decoded :
        /\ trace[k].class = 1
        /\ img.classes[1].sf = <<3, 1, 5>> /\ img.classes[1].vm = <<1>>
        /\ ConfigOf(k).sf = <<2>> /\ ConfigOf(k).if = <<0, 4>>
        /\ ConfigOf(k).vm = <<0, 3>>
        /\ ClassOf(k).ClassData.InstanceFields[1].Field = FieldRecord(0)
        /\ ClassOf(k).ClassData.InstanceFields[2].Field = FieldRecord(4)
        /\ ClassOf(k).ClassData.VirtualMethods[1].Method = MethodRecord(0)

\* C8: when Parse unpacks a class def whose class_data_off is 0, Unpack
\* returns no error and does not panic, no codec returns an error, the
\* class data offset is not followed, none of the four list codecs is
\* called, and the four counts and lists of the class stay empty.  (The
\* static values offset is another field of the class def, with its own
\* codec.)
C8_NoClassData ==
    \A k \in 1..Len(trace) :
        trace[k].stage = "class" /\ img.cut < 0 /\ ~ConfigOf(k).data =>
            /\ trace[k].err = "nil" /\ ~trace[k].panic /\ trace[k].errs = <<>>
            /\ \A n \in 1..Len(trace[k].side) : trace[k].side[n].codec # "classdata"
            /\ \A n \in 1..Len(trace[k].calls) : trace[k].calls[n].tag \notin ListTags
            /\ ClassOf(k).ClassData = ZeroObj("ClassDataItem")
            /\ ClassOf(k).ClassData.StaticFields = <<>>
            /\ ClassOf(k).ClassData.InstanceFields = <<>>
            /\ ClassOf(k).ClassData.DirectMethods = <<>>
            /\ ClassOf(k).ClassData.VirtualMethods = <<>>

\* the second class def of a file has no class data, after a first class
\* def that has; the classdata codec was called for it and Open returned
C8_Witness ==
    /\ pc = "returned" /\ img.cut < 0 /\ Len(trace) = 8
    /\ img.classes[1].data /\ ~img.classes[2].data
    /\ Len(dex.Classes[1].ClassData.StaticFields) = 3
    /\ \E n \in 1..Len(trace[8].calls) : trace[8].calls[n].tag = "classdata"
    /\ dex.Classes[2].ClassData.StaticFields = <<>>

\* C10: as soon as a loader or the unpacking of a class def has raised an
\* error, Parse has returned that error without running another step, and
\* Open, once it has returned, has returned that error and not nil.
C10_FirstErrorSurfaced ==
    \A k \in 1..Len(trace) :
        trace[k].panic \/ trace[k].err # "nil" =>
            /\ k = Len(trace)
            /\ pc \in {"parsed", "returned"}
            /\ parseErr \notin {"none", "nil"}
            /\ pc = "returned" => openRes.err = parseErr

\* C11: a class def of a whole file whose static_values_off points at the
\* encoded array [VALUE_STRING -> string 0, VALUE_INT -> 42] is unpacked
\* without a panic, and its StaticValues list has two entries, the first of
\* type VALUE_STRING whose data is the index of "X", the second of type
\* VALUE_INT (4) whose data is 42.
C11_StaticValuesDecoded ==
    \A k \in 1..Len(trace) :
        trace[k].stage = "class" /\ img.cut < 0 /\ ConfigOf(k).sv = "two" =>
            /\ ~trace[k].panic
            /\ Len(ClassOf(k).StaticValues) = 2
            /\ ClassOf(k).StaticValues[1].ValueType = U32(VALUE_STRING)
            /\ ClassOf(k).StaticValues[1].Data = <<0>>
            /\ ClassOf(k).StaticValues[2].ValueType = U32(4)
            /\ ClassOf(k).StaticValues[2].Data = <<42>>

\* C14: once readStrings has run on a whole file, every entry of Strings
\* holds all the bytes of its string data item between the utf16_size
\* prefix and the 0x00 terminator.
C14_StringWhole ==
    \A k \in 1..Len(trace) :
        trace[k].stage = "readStrings" /\ ~trace[k].panic /\ img.cut < 0 =>
            /\ Len(dex.Strings) = Len(ImageStrings)
            /\ \A n \in 1..Len(ImageStrings) :
                 dex.Strings[n] = ImageStrings[n].bytes

-----------------------------------------------------------------------------
(* Claims about Dump and Disassemble (Spec).                               *)

\* the last call was Disassemble, or Dump reached a call of Disassemble
DisCalls ==
    CASE out.call = "Disassemble" ->
           {[class |-> out.class, list |-> out.list, j |-> out.j, res |-> out.res]}
      [] out.call = "Dump" -> {out.res.dis[n] : n \in 1..Len(out.res.dis)}
      [] OTHER -> {}

\* the instructions the image holds for the method a call was made on:
\* those of the class's code for a virtual method, none for a direct one
BodyOf(c) ==
    IF c.list = "VirtualMethods" THEN img.classes[c.class].code ELSE <<>>

\* the calls made on a method with code that did not panic
CodeCalls == {c \in DisCalls : BodyOf(c) # <<>> /\ ~c.res.panic}

\* the lines of a call that show an instruction
InsnLines(c) ==
    {c.res.lines[n] : n \in {k \in 1..Len(c.res.lines) : c.res.lines[k].kind = "insn"}}

\* the line of the first instruction of the method, if there is one
FirstLines(c) == {l \in InsnLines(c) : l.at = ToNat(c.res.m.CodeOffset) + 16}

\* C12: when the first opcode of a method is not in the instruction table,
\* Disassemble returns an error or prints an error marker.
C12_UnknownOpcodeReported ==
    \A c \in CodeCalls :
        ~instructions(BodyOf(c)[1][1]).ok =>
            \/ c.res.err # "nil"
            \/ \E n \in 1..Len(c.res.lines) :
                 c.res.lines[n].kind \notin {"stars", "offset", "size", "insn"}

\* C13: Disassemble, called directly or by Dump on a method whose code_off
\* is 0, reads no size of a code item and prints no instruction.
C13_NoCodeSkipped ==
    \A c \in DisCalls :
        ToNat(c.res.m.CodeOffset) = 0 =>
            \A n \in 1..Len(c.res.lines) :
                c.res.lines[n].kind \notin {"size", "insn"}

\* C15: the line of a const-string (26) or const-string/jumbo (27) that
\* starts a method names the register AA and the string Strings[idx], idx
\* being the 16-bit index of const-string, the 32-bit one of the jumbo form.
C15_ConstStringSuffix ==
    \A c \in CodeCalls :
        BodyOf(c)[1][1] \in {26, 27} =>
            \E l \in FirstLines(c) :
                /\ l.code = BodyOf(c)[1][1]
                /\ \E n \in 1..Len(l.parts) :
                     l.parts[n].args =
                         << BodyOf(c)[1][2],
                            dex.Strings[BodyOf(c)[1][3] + 256 * BodyOf(c)[1][4] + 1] >>

\* C16: the line of an invoke-kind (110..114) or invoke-kind/range
\* (116..120) that starts a method names the method Methods[BBBB], BBBB
\* being the second code unit of the instruction.
C16_InvokeSuffix ==
    \A c \in CodeCalls :
        BodyOf(c)[1][1] \in (110..114) \cup (116..120) =>
            \E l \in FirstLines(c) :
                /\ l.code = BodyOf(c)[1][1]
                /\ \E n \in 1..Len(l.parts) :
                     l.parts[n].args =
                         << dex.Strings[ToNat(
                              dex.Methods[BodyOf(c)[1][3] + 256 * BodyOf(c)[1][4] + 1]
                                 .NameIdx) + 1] >>

\* C17: for a method whose body is made of whole instructions with a
\* fixed length in the table, the cursor after each instruction is at most
\* code_off + 16 + 2 * insns_size, and the loop ends with the cursor there.
C17_CursorWithinBody ==
    \A c \in CodeCalls :
        (\A n \in 1..Len(BodyOf(c)) : BodyOf(c)[n] \in ValidInsns) =>
            /\ \A l \in InsnLines(c) :
                 l.next <= ToNat(c.res.m.CodeOffset) + 16 + Len(Flatten(BodyOf(c)))
            /\ c.res.offset = ToNat(c.res.m.CodeOffset) + 16 + Len(Flatten(BodyOf(c)))

\* C19: a call of Dump or of Disassemble leaves the byte buffer, the header
\* and every table of the DEX as they were.
C19_ReadOnly ==
    [][ncalls' # ncalls => dex' = dex /\ b' = b /\ bcap' = bcap]_vars

\* two calls were made, the last a Disassemble that printed an instruction
\* of a method with code
C19_Witness ==
    /\ ncalls = MaxCalls /\ pc = "returned" /\ out.call = "Disassemble"
    /\ \E c \in CodeCalls : InsnLines(c) # {}
    /\ Len(dex.Classes) >= 1 /\ Len(dex.Strings) = Len(ImageStrings)

-----------------------------------------------------------------------------
(* Claims about the id tables (Spec).                                      *)

\* the buffer Open read, and the 32-bit and 16-bit values it holds at o
File == Slice(b, bcap)
U32At(o) == LittleEndianUint32(SliceRange(File, o, o + 4))
U16At(o) == U32(LittleEndianUint16(SliceRange(File, o, o + 2)))

\* Parse has returned nil on a file that was read whole
ParsedWhole == pc \in {"parsed", "returned"} /\ parseErr = "nil" /\ img.cut < 0

\* C20: once Parse has returned on a whole file, each id table has as many
\* slots as the header says and the image holds, and slot i holds the
\* record at the table's offset + i * stride: stride 4 for Strings (the
\* offset of the string data) and Types, 12 for Prototypes, 8 for Fields
\* and Methods, 32 for the class defs.
C20_TableSlots ==
    ParsedWhole =>
        /\ Len(dex.Strings) = ToNat(dex.header.StringIdsSize)
        /\ Len(dex.Strings) = Len(ImageStrings)
        /\ \A i \in 0..(Len(dex.Strings) - 1) :
             dex.Strings[i + 1] =
                 str(SliceFrom(File,
                       ToNat(U32At(ToNat(dex.header.StringIdsOffset) + 4 * i)))).s
        /\ Len(dex.Types) = ToNat(dex.header.TypeIdsSize)
        /\ Len(dex.Types) = Len(ImageTypes)
        /\ \A i \in 0..(Len(dex.Types) - 1) :
             dex.Types[i + 1] =
                 [dex |-> "dex",
                  DescriptorIdx |-> U32At(ToNat(dex.header.TypeIdsOffset) + 4 * i)]
        /\ Len(dex.Prototypes) = ToNat(dex.header.ProtosSize)
        /\ Len(dex.Prototypes) = Len(ImageProtos)
        /\ \A i \in 0..(Len(dex.Prototypes) - 1) :
             dex.Prototypes[i + 1] =
                 [dex |-> "dex",
                  ShortyIdx |-> U32At(ToNat(dex.header.ProtosOffset) + 12 * i),
                  ReturnTypeIdx |-> U32At(ToNat(dex.header.ProtosOffset) + 12 * i + 4),
                  ParametersOffset |->
                      U32At(ToNat(dex.header.ProtosOffset) + 12 * i + 8)]
        /\ Len(dex.Fields) = ToNat(dex.header.FieldsSize)
        /\ Len(dex.Fields) = ImageFields
        /\ \A i \in 0..(Len(dex.Fields) - 1) :
             /\ dex.Fields[i + 1] =
                 [dex |-> "dex",
                  ClassIdx |-> U16At(ToNat(dex.header.FieldsOffset) + 8 * i),
                  TypeIdx |-> U16At(ToNat(dex.header.FieldsOffset) + 8 * i + 2),
                  NameIdx |-> U32At(ToNat(dex.header.FieldsOffset) + 8 * i + 4)]
             /\ dex.Fields[i + 1] = FieldRecord(i)
        /\ Len(dex.Methods) = ToNat(dex.header.MethodIdsSize)
        /\ Len(dex.Methods) = ImageMethods
        /\ \A i \in 0..(Len(dex.Methods) - 1) :
             /\ dex.Methods[i + 1] =
                 [dex |-> "dex",
                  ClassIdx |-> U16At(ToNat(dex.header.MethodIdsOffset) + 8 * i),
                  ProtoIdx |-> U16At(ToNat(dex.header.MethodIdsOffset) + 8 * i + 2),
                  NameIdx |-> U32At(ToNat(dex.header.MethodIdsOffset) + 8 * i + 4)]
             /\ dex.Methods[i + 1] = MethodRecord(i)
        /\ Len(dex.Classes) = ToNat(dex.header.ClassDefsSize)
        /\ Len(dex.Classes) = Len(img.classes)
        /\ \A i \in 0..(Len(dex.Classes) - 1) :
             /\ dex.Classes[i + 1].ClassIdx =
                    U32At(ToNat(dex.header.ClassDefsOffset) + 32 * i)
             /\ dex.Classes[i + 1].ClassIdx = U32(i % 2)
             /\ dex.Classes[i + 1].AccessFlags =
                    U32At(ToNat(dex.header.ClassDefsOffset) + 32 * i + 4)
             /\ dex.Classes[i + 1].SuperclassIdx =
                    U32At(ToNat(dex.header.ClassDefsOffset) + 32 * i + 8)
             /\ dex.Classes[i + 1].InterfacesOffset =
                    U32At(ToNat(dex.header.ClassDefsOffset) + 32 * i + 12)
             /\ dex.Classes[i + 1].SourceFileIdx =
                    U32At(ToNat(dex.header.ClassDefsOffset) + 32 * i + 16)
             /\ dex.Classes[i + 1].AnnotationsOffset =
                    U32At(ToNat(dex.header.ClassDefsOffset) + 32 * i + 20)

\* Open has returned a DEX with every table filled, two class defs among
\* them, the last field id in the last slot of Fields
C20_Witness ==
    /\ ParsedWhole /\ pc = "returned"
    /\ Len(dex.Strings) = Len(ImageStrings) /\ Len(dex.Types) = Len(ImageTypes)
    /\ Len(dex.Prototypes) = Len(ImageProtos)
    /\ Len(dex.Fields) = ImageFields /\ Len(dex.Methods) = ImageMethods
    /\ dex.Fields[ImageFields] = FieldRecord(ImageFields - 1)
    /\ dex.Methods[ImageMethods] = MethodRecord(ImageMethods - 1)
    /\ Len(dex.Classes) >= 2
    /\ dex.Classes[2].ClassIdx = U32(1)

-----------------------------------------------------------------------------
(* Claims about two concurrent calls of Parse (SpecPair).                  *)

\* the tags under which the class loop registers its closures
ClassTags ==
    {"classdata", "staticfields", "instancefields", "directmethods",
     "virtualmethods", "staticvalues"}

\* C18: Parse uses no shared mutable state: of two interleaved calls on
\* two DEX values, each that returns has built the object model it builds
\* alone, and every closure invoked by the Unpack of a call is one that
\* call registered, so that it writes the class item of that call only.
C18_NoSharedState ==
    \A c \in Callers :
        /\ par[c].pc = "done" => par[c].dex = ParseAlone(par[c].file)
        /\ \A k \in 1..Len(par[c].log) :
             par[c].log[k].tag \in ClassTags => par[c].log[k].owner[1] = c

-----------------------------------------------------------------------------
(* Claims about the fixed-width decoders and Unpack (SpecCodec).           *)

\* the bytes a fixed-width field takes: 4 for uint, 2 for ushort, the
\* array's length for byte, none for a skipped field
Width(f) ==
    CASE f.tag = "uint" -> 4
      [] f.tag = "ushort" -> 2
      [] f.tag = "byte" -> f.len
      [] OTHER -> 0

\* the record types all of whose fields are skipped or fixed-width
FixedTypes ==
    { t \in RecordTypes :
        \A k \in 1..Len(TypeDesc(t)) :
            TypeDesc(t)[k].tag \in {"-", "uint", "ushort", "byte"} }

\* the sum of the widths of fields 1..k of desc
RECURSIVE WidthSum(_, _)
WidthSum(desc, k) == IF k = 0 THEN 0 ELSE WidthSum(desc, k - 1) + Width(desc[k])

Need(t) == WidthSum(TypeDesc(t), Len(TypeDesc(t)))

\* Unpack was called on a record of fixed-width fields
FixedUnpacked == cpc = "done" /\ cop = "Unpack" /\ cres.type \in FixedTypes

\* C21: a reader built on the fixed-width little-endian decoders that is
\* given fewer bytes than it needs fails with EShortInput: it does not
\* abort the program and does not consume bytes past the end of the buffer.
C21_ShortInputReported ==
    (FixedUnpacked /\ Len(cin) < Need(cres.type)) =>
        /\ ~cres.panic
        /\ cres.err = "EShortInput"
        /\ cres.n <= Len(cin)

\* the byte count the codec of field f returns when it is handed cin from
\* off on: the width of a fixed-width field, nothing for a byte tag on a
\* field that is no array, the bytes of the ULEB128 value at off
Returned(f, off) ==
    CASE f.tag = "uleb128" -> unpackUleb128(SliceFrom(Slice(cin, Len(cin)), off)).n
      [] f.tag = "byte" /\ f.kind # "array" -> 0
      [] OTHER -> Width(f)

\* the walk over fields 1..k of desc in declaration order: the sum of the
\* byte counts returned so far, the fields a codec was called for with the
\* offset each was called at, and the error of the first field whose tag
\* names no codec
RECURSIVE Walk(_, _)
Walk(desc, k) ==
    IF k = 0 THEN [offset |-> 0, err |-> "nil", starts |-> <<>>]
    ELSE CHOOSE res \in {
             CASE w.err # "nil" \/ desc[k].tag = "-" -> w
               [] w.err = "nil" /\ desc[k].tag # "-"
                    /\ desc[k].tag \notin DOMAIN packs ->
                    [w EXCEPT !.err = "Not implemented type "]
               [] OTHER ->
                    [offset |-> w.offset + Returned(desc[k], w.offset),
                     err |-> "nil",
                     starts |-> Append(w.starts, [field |-> desc[k].name,
                                                  tag |-> desc[k].tag,
                                                  kind |-> desc[k].kind,
                                                  len |-> desc[k].len,
                                                  at |-> w.offset])]
             : w \in {Walk(desc, k - 1)} } : TRUE

\* what the codec of a field stores when it is handed cin from at on; the
\* bytes past the end of cin that spare capacity lets it reach are zero
Stored(s) ==
    LET data == SliceFrom(Slice(cin, Len(cin) + CapSlack), s.at)
    IN  CASE s.tag = "uint" -> LittleEndianUint32(SliceTo(data, 4))
          [] s.tag = "ushort" -> U32(LittleEndianUint16(SliceTo(data, 2)))
          [] s.tag = "byte" /\ s.kind = "array" -> SliceTo(data, s.len).bytes
          [] s.tag = "byte" /\ s.kind # "array" -> Zero32
          [] s.tag = "uleb128" ->
               unpackUleb128(SliceFrom(Slice(cin, Len(cin)), s.at)).value

\* Unpack has returned
Unpacked == cpc = "done" /\ cop = "Unpack" /\ ~cres.panic

\* C22: Unpack walks the fields in declaration order and skips the "-"
\* tags; the codec of a field is handed the input from the sum of the byte
\* counts returned before it, and Unpack returns that sum: 112 for Header,
\* 8 for FieldIdItem and MethodIdItem, 12 for ProtoIdItem; at a tag that
\* names no registered codec it returns an error with the offset reached.
C22_UnpackOffsets ==
    Unpacked =>
        LET w == Walk(TypeDesc(cres.type), Len(TypeDesc(cres.type)))
        IN  /\ cres.n = w.offset
            /\ cres.err = w.err
            /\ Len(cres.calls) = Len(w.starts)
            /\ \A k \in 1..Len(w.starts) :
                 /\ cres.calls[k].field = w.starts[k].field
                 /\ cres.calls[k].tag = w.starts[k].tag
                 /\ cres.obj[w.starts[k].field] = Stored(w.starts[k])
            /\ cres.type = "Header" => cres.n = 112 /\ cres.err = "nil"
            /\ cres.type \in {"FieldIdItem", "MethodIdItem"} =>
                   cres.n = 8 /\ cres.err = "nil"
            /\ cres.type = "ProtoIdItem" => cres.n = 12 /\ cres.err = "nil"
            /\ cres.type \in {"ClassDefItem", "ClassDataItem", "EncodedArray"} =>
                   cres.err = "Not implemented type "

\* Unpack has filled a Header from 112 bytes, Checksum from bytes 8..11 and
\* DataOffset from bytes 108..111, and returned 112
C22_Witness ==
    /\ Unpacked /\ cres.type = "Header" /\ Len(cin) = 112
    /\ cres.n = 112 /\ cres.err = "nil"
    /\ cres.obj.Magic = <<1, 2, 3, 4, 5, 6, 7, 8>>
    /\ cres.obj.Checksum = <<12 * 256 + 11, 10 * 256 + 9>>
    /\ cres.obj.DataOffset = <<112 * 256 + 111, 110 * 256 + 109>>

\* a line that an iteration of the loop printed
IsStepLine(l) == l.kind \in {"insn", "invalid"}

\* the lines the iterations of the loop of a call printed, in order
StepLines(c) == SelectSeq(c.res.lines, IsStepLine)

\* the offset the loop of a call starts at
LoopStart(c) == ToNat(c.res.m.CodeOffset) + 16

\* C23: Disassemble terminates on every method body: the loop is left at
\* its bound, at an unknown opcode, at an entry of Length -1 or by a panic,
\* and every iteration before that starts where the one before it ended
\* and moves the cursor on by at least one byte; nop moves it by one.
C23_Terminates ==
    \A c \in DisCalls :
        /\ c.res.stop \in {"end", "unknown", "invalid", "panic"}
        /\ c.res.stop = "end" => c.res.offset >= c.res.end
        /\ c.res.sizeAt + 4 = LoopStart(c) =>
             \A n \in 1..Len(StepLines(c)) :
                 /\ StepLines(c)[n].at =
                        IF n = 1 THEN LoopStart(c) ELSE StepLines(c)[n - 1].next
                 /\ StepLines(c)[n].at < c.res.end
                 /\ StepLines(c)[n].kind = "insn" =>
                        /\ StepLines(c)[n].next >= StepLines(c)[n].at + 1
                        /\ StepLines(c)[n].code = 0 =>
                               StepLines(c)[n].next = StepLines(c)[n].at + 1
                 /\ StepLines(c)[n].kind = "invalid" =>
                        /\ n = Len(StepLines(c))
                        /\ c.res.stop = "invalid"
                        /\ c.res.offset = StepLines(c)[n].at + 1
                        /\ StepLines(c)[n].code # 0

\* Disassemble was called on a body of four nop bytes and left the loop at
\* its bound after four iterations
C23_Witness ==
    /\ out.call = "Disassemble" /\ out.list = "VirtualMethods"
    /\ img.classes[out.class].code = << <<0, 0, 0, 0>> >>
    /\ out.res.stop = "end" /\ ~out.res.panic
    /\ out.res.offset = out.res.end
    /\ Len(SelectSeq(out.res.lines, IsStepLine)) = 4

\* C24: every opcode the loop of Disassemble reads is at a code-unit
\* boundary: its distance from the start of the insns block, code_off + 16,
\* is an even number of bytes.
C24_OpcodeAligned ==
    \A c \in CodeCalls :
        \A n \in 1..Len(StepLines(c)) :
            (StepLines(c)[n].at - LoopStart(c)) % 2 = 0

-----------------------------------------------------------------------------
(* Claims about the closures of the class loop (Spec).                     *)

\* the class_data_off the file holds for the class def of trace entry k
ClassDataOff(k) ==
    ToNat(U32At(ToNat(dex.header.ClassDefsOffset) + 32 * trace[k].class + 24))

\* C25: the registry is global and keeps the closures of the class before,
\* yet every closure run while class def i is unpacked is one registered
\* in iteration i, the only side offset the classdata closure follows is
\* class i's own class_data_off, and Classes[i] has class i's own four
\* counts and four lists of those lengths, whatever the classes before and
\* after it hold; a class without class data has none.
C25_OwnClassData ==
    \A k \in Decoded :
        /\ \A n \in 1..Len(trace[k].calls) :
             trace[k].calls[n].tag \in ClassTags =>
                 trace[k].calls[n].owner = trace[k].class
        /\ packs["classdata"].owner >= trace[k].class
        /\ \A n \in 1..Len(trace[k].side) :
             trace[k].side[n].codec = "classdata" =>
                 /\ ConfigOf(k).data
                 /\ trace[k].side[n].off = ClassDataOff(k)
        /\ ConfigOf(k).data =>
             /\ ClassOf(k).ClassData.StaticFieldSize = U32(Len(ConfigOf(k).sf))
             /\ ClassOf(k).ClassData.InstanceFieldSize = U32(Len(ConfigOf(k).if))
             /\ ClassOf(k).ClassData.DirectMethodsSize = U32(Len(ConfigOf(k).dm))
             /\ ClassOf(k).ClassData.VirtualMethodsSize = U32(Len(ConfigOf(k).vm))
             /\ Len(ClassOf(k).ClassData.StaticFields) = Len(ConfigOf(k).sf)
             /\ Len(ClassOf(k).ClassData.InstanceFields) = Len(ConfigOf(k).if)
             /\ Len(ClassOf(k).ClassData.DirectMethods) = Len(ConfigOf(k).dm)
             /\ Len(ClassOf(k).ClassData.VirtualMethods) = Len(ConfigOf(k).vm)
             /\ \A j \in 1..Len(ConfigOf(k).sf) :
                  ClassOf(k).ClassData.StaticFields[j].FieldIdxDiff
                    = U32(ConfigOf(k).sf[j])
             /\ \A j \in 1..Len(ConfigOf(k).vm) :
                  ClassOf(k).ClassData.VirtualMethods[j].MethodIdxDiff
                    = U32(ConfigOf(k).vm[j])
        /\ ~ConfigOf(k).data => ClassOf(k).ClassData = ZeroObj("ClassDataItem")

\* the second class def of a file, with one static field and two virtual
\* methods, was unpacked by its own closures after a first class def with
\* three static fields and one virtual method, and Open has returned
C25_Witness ==
    /\ pc = "returned" /\ img.cut < 0 /\ Len(trace) = 8 /\ 8 \in Decoded
    /\ img.classes[1].data /\ img.classes[1].sf = <<3, 1, 5>>
    /\ img.classes[1].vm = <<1>>
    /\ img.classes[2].data /\ img.classes[2].sf = <<2>>
    /\ img.classes[2].vm = <<0, 3>>
    /\ Len(dex.Classes[1].ClassData.StaticFields) = 3
    /\ Len(dex.Classes[2].ClassData.StaticFields) = 1
    /\ Len(dex.Classes[2].ClassData.VirtualMethods) = 2
    /\ \E n \in 1..Len(trace[8].calls) :
         trace[8].calls[n].tag = "staticfields" /\ trace[8].calls[n].owner = 1
    /\ \E n \in 1..Len(trace[8].side) :
         trace[8].side[n].codec = "classdata" /\ trace[8].side[n].off = ClassDataOff(8)

====
